---------------------------- MODULE Spec2Model ----------------------------
(***************************************************************************)
(* A model of decimal-rs: the Decimal value type (src/src/decimal.rs), its *)
(* 256-bit unsigned helper (src/src/u256.rs) and the operations built on   *)
(* them.                                                                   *)
(*                                                                         *)
(* TLC's integers are 32 bits wide, the program's are 128 and 256 bits.    *)
(* An unsigned integer of the program is therefore a sequence of limbs in  *)
(* base 10^4, least significant limb first, without leading zero limbs     *)
(* (zero is the empty sequence).  The width of u128 and U256 is kept: the  *)
(* places where the code wraps, truncates (U256::low) or panics on         *)
(* overflow compare against 2^128 and 2^256.                               *)
(***************************************************************************)
EXTENDS Integers, Sequences, FiniteSets, TLC

(***************************************************************************)
(* Unsigned integers of arbitrary width (the carrier of u128 and U256).    *)
(***************************************************************************)
Base == 10000
DigitsPerLimb == 4

Min(x, y) == IF x <= y THEN x ELSE y
Max(x, y) == IF x >= y THEN x ELSE y

NatZero == << >>

\* The limbs of a small non-negative integer n (n < 2^31).
RECURSIVE NatOf(_)
NatOf(n) == IF n = 0 THEN << >> ELSE <<n % Base>> \o NatOf(n \div Base)

\* Prepend a low limb, keeping zero canonical.
NatCons(d, x) == IF d = 0 /\ x = << >> THEN << >> ELSE <<d>> \o x

RECURSIVE NatAddC(_, _, _)
NatAddC(x, y, c) ==
    IF y = << >> /\ c = 0 THEN x
    ELSE IF x = << >> /\ c = 0 THEN y
    ELSE LET xd == IF x = << >> THEN 0 ELSE Head(x)
             yd == IF y = << >> THEN 0 ELSE Head(y)
             s  == xd + yd + c
         IN  <<s % Base>> \o NatAddC(IF x = << >> THEN x ELSE Tail(x),
                                     IF y = << >> THEN y ELSE Tail(y),
                                     s \div Base)

NatAdd(x, y) == NatAddC(x, y, 0)

\* x - y for x >= y, with borrow c.
RECURSIVE NatSubC(_, _, _)
NatSubC(x, y, c) ==
    IF y = << >> /\ c = 0 THEN x
    ELSE LET yd == IF y = << >> THEN 0 ELSE Head(y)
             s  == Head(x) - yd - c
             d  == IF s < 0 THEN s + Base ELSE s
         IN  NatCons(d, NatSubC(Tail(x), IF y = << >> THEN y ELSE Tail(y),
                                IF s < 0 THEN 1 ELSE 0))

\* Compare from the most significant limb down: -1, 0, 1.
RECURSIVE NatCmpAt(_, _, _)
NatCmpAt(x, y, i) ==
    IF i = 0 THEN 0
    ELSE IF x[i] < y[i] THEN -1
    ELSE IF x[i] > y[i] THEN 1
    ELSE NatCmpAt(x, y, i - 1)

NatCmp(x, y) ==
    IF Len(x) < Len(y) THEN -1
    ELSE IF Len(x) > Len(y) THEN 1
    ELSE NatCmpAt(x, y, Len(x))

NatLt(x, y) == NatCmp(x, y) < 0
NatLe(x, y) == NatCmp(x, y) <= 0

NatSub(x, y) == NatSubC(x, y, 0)

\* x * m + c for a small multiplier 0 <= m < Base and carry c < Base.
RECURSIVE NatMulSmallC(_, _, _)
NatMulSmallC(x, m, c) ==
    IF x = << >> THEN (IF c = 0 THEN << >> ELSE <<c>>)
    ELSE LET s == Head(x) * m + c
         IN  <<s % Base>> \o NatMulSmallC(Tail(x), m, s \div Base)

NatMulSmall(x, m) ==
    IF m = 0 THEN << >> ELSE IF m = 1 THEN x ELSE NatMulSmallC(x, m, 0)

\* x * Base^n.
NatShiftLimbs(x, n) ==
    IF x = << >> \/ n = 0 THEN x ELSE [i \in 1..n |-> 0] \o x

RECURSIVE NatMul(_, _)
NatMul(x, y) ==
    IF x = << >> \/ y = << >> THEN << >>
    ELSE NatAdd(NatMulSmall(x, Head(y)), NatShiftLimbs(NatMul(x, Tail(y)), 1))

RECURSIVE NatNorm(_)
NatNorm(x) ==
    IF x = << >> THEN x
    ELSE IF x[Len(x)] = 0 THEN NatNorm(SubSeq(x, 1, Len(x) - 1))
    ELSE x

\* The limbs of a quotient that was produced most significant limb first.
NatFromHighFirst(q, n) == NatNorm([j \in 1..n |-> q[n + 1 - j]])

\* Short division by a small divisor 0 < m < Base, from the top limb down: the
\* quotient limbs, most significant first, followed by the remainder.
RECURSIVE NatDivSmallAt(_, _, _, _)
NatDivSmallAt(x, m, i, r) ==
    IF i = 0 THEN <<r>>
    ELSE LET cur == r * Base + x[i]
         IN  <<cur \div m>> \o NatDivSmallAt(x, m, i - 1, cur % m)

NatDivModSmall(x, m) ==
    LET n  == Len(x)
        qr == NatDivSmallAt(x, m, n, 0)
    IN  <<NatFromHighFirst(qr, n), NatOf(qr[n + 1])>>

\* The largest q in lo..hi with q * y <= r (lo * y <= r is given).
RECURSIVE NatQuotDigit(_, _, _, _)
NatQuotDigit(r, y, lo, hi) ==
    IF lo = hi THEN lo
    ELSE LET mid == (lo + hi + 1) \div 2
         IN  IF NatLe(NatMulSmall(y, mid), r)
             THEN NatQuotDigit(r, y, mid, hi)
             ELSE NatQuotDigit(r, y, lo, mid - 1)

\* The leading limbs of r above position n - 1, as a small integer (r < y * Base).
NatTop(r, n) ==
    IF Len(r) < n THEN 0
    ELSE IF Len(r) = n THEN r[n]
    ELSE r[n + 1] * Base + r[n]

\* Schoolbook long division, one quotient limb for each limb of x, from the top
\* limb down: the quotient limbs, most significant first, followed by the remainder.
RECURSIVE NatDivModAt(_, _, _, _)
NatDivModAt(x, y, i, r) ==
    IF i = 0 THEN <<r>>
    ELSE LET n   == Len(y)
             cur == NatCons(x[i], r)
             top == NatTop(cur, n)
             q   == IF NatLt(cur, y) THEN 0
                    ELSE NatQuotDigit(cur, y, Max(1, top \div (y[n] + 1)),
                                      Min(Base - 1, top \div y[n]))
         IN  <<q>> \o NatDivModAt(x, y, i - 1,
                                  IF q = 0 THEN cur ELSE NatSub(cur, NatMulSmall(y, q)))

\* <<x div y, x mod y>> for y # 0.
NatDivMod(x, y) ==
    IF NatLt(x, y) THEN <<NatZero, x>>
    ELSE IF Len(y) = 1 THEN NatDivModSmall(x, y[1])
    ELSE LET n  == Len(x)
             qr == NatDivModAt(x, y, n, << >>)
         IN  <<NatFromHighFirst(qr, n), qr[n + 1]>>

SmallPow10(k) == CASE k = 0 -> 1 [] k = 1 -> 10 [] k = 2 -> 100 [] k = 3 -> 1000

\* 10^k.
NatPow10(k) == NatShiftLimbs(<<SmallPow10(k % DigitsPerLimb)>>, k \div DigitsPerLimb)

\* x * 10^k and x div 10^k.
NatMulPow10(x, k) ==
    NatShiftLimbs(NatMulSmall(x, SmallPow10(k % DigitsPerLimb)), k \div DigitsPerLimb)

NatDivPow10(x, k) ==
    LET n == k \div DigitsPerLimb
    IN  IF Len(x) <= n THEN NatZero
        ELSE NatDivModSmall(SubSeq(x, n + 1, Len(x)), SmallPow10(k % DigitsPerLimb))[1]

SmallDigits(d) == IF d >= 1000 THEN 4 ELSE IF d >= 100 THEN 3 ELSE IF d >= 10 THEN 2 ELSE 1

\* The number of decimal digits of x (0 for zero).
NatDigits(x) ==
    IF x = << >> THEN 0
    ELSE DigitsPerLimb * (Len(x) - 1) + SmallDigits(x[Len(x)])

\* 2^n, by squaring.
RECURSIVE NatPow2(_)
NatPow2(n) ==
    IF n = 0 THEN <<1>>
    ELSE IF n % 2 = 1 THEN NatMulSmall(NatPow2(n - 1), 2)
    ELSE LET h == NatPow2(n \div 2) IN NatMul(h, h)

(***************************************************************************)
(* Program constants.                                                      *)
(***************************************************************************)
MAX_PRECISION == 38
MAX_BINARY_SIZE == 18
MAX_SCALE == 130
MIN_SCALE == -126
SIGN_MASK == 1
SCALE_MASK == 2
SCALE_SHIFT == 1
N_UDWORD_BITS == 128

\* The number of entries of the tables POWERS_10 and ROUNDINGS.
POWERS_10_LEN == 77

\* The range of i16, the type of every scale argument.
I16_MIN == -(2^15)
I16_MAX == 2^15 - 1

\* The range of u8, the type of the precision argument and of an encoded byte.
U8_MAX == 2^8 - 1
U16_MAX == 2^16 - 1

\* u128::MAX + 1 and the first value a U256 cannot hold.
TwoPow128 == NatPow2(N_UDWORD_BITS)
TwoPow256 == NatMul(TwoPow128, TwoPow128)

\* 10^38 - 1, the largest significand of a valid Decimal.
MAX_I128_REPR == NatSub(NatPow10(MAX_PRECISION), <<1>>)

(***************************************************************************)
(* U256 (src/src/u256.rs).  A U256 is the number high * 2^128 + low.       *)
(***************************************************************************)
\* POWERS_10[k] = 10^k and ROUNDINGS[k] = 5 * 10^(k-1) (ROUNDINGS[0] = 0),
\* for k in 0 .. POWERS_10_LEN - 1.
POWERS_10(k) == NatPow10(k)
ROUNDINGS(k) == IF k = 0 THEN NatZero ELSE NatMulSmall(NatPow10(k - 1), 5)

\* U256::low: the low 128 bits.
low(x) == IF NatLt(x, TwoPow128) THEN x ELSE NatDivMod(x, TwoPow128)[2]

\* Whether a sum or product does not fit in 256 bits.
overflows256(x) == ~NatLt(x, TwoPow256)

\* U256::count_digits: a binary search of POWERS_10.  Ok(pos) is a power of ten
\* with pos + 1 digits; Err(pos) counts the entries below x, which is the number
\* of digits of x, except for 0 (one digit) and for x above the last entry.
count_digits(x) ==
    IF x = NatZero THEN 1 ELSE Min(NatDigits(x), POWERS_10_LEN)

is_decimal_overflowed(x) == ~NatLt(x, POWERS_10(MAX_PRECISION))

\* U256::mul128 and U256::add128: the full product and sum of two u128.
mul128(left, right) == NatMul(left, right)
add128(left, right) == NatAdd(left, right)

\* U256::div_rem: <<quotient, remainder>>.
div_rem(x, other) == NatDivMod(x, other)

\* U256::div128_round: the quotient rounded half up.
div128_round(x, other) ==
    LET qr     == div_rem(x, other)
        result == qr[1]
        rem    == qr[2]
    IN  IF rem = NatZero THEN result
        ELSE LET sub_result == NatSub(other, rem)
             IN  IF NatLe(sub_result, rem) THEN NatAdd(result, <<1>>) ELSE result

\* U256::cmp128: -1 (Less), 0 (Equal), 1 (Greater).
cmp128(x, other) == NatCmp(x, other)

(***************************************************************************)
(* The division of U256, word by word (src/src/u256.rs).  A u128 is a       *)
(* number below 2^128; | joins bits that do not overlap and is a sum.  A   *)
(* value that the code names with `let` is a parameter of the operator    *)
(* that models the statements after it.                                    *)
(***************************************************************************)
\* U256::high: the high 128 bits.
high(x) == IF NatLt(x, TwoPow128) THEN NatZero ELSE NatDivMod(x, TwoPow128)[1]

\* const B: u128 = 1 << (N_UDWORD_BITS / 2); x & 0xFFFF_FFFF_FFFF_FFFF is
\* x % B.
B == NatPow2(N_UDWORD_BITS \div 2)

\* The u128 that wrapping_mul, wrapping_add and << keep of x.
wrapping(x) == IF NatLt(x, TwoPow128) THEN x ELSE NatDivMod(x, TwoPow128)[2]

\* x.wrapping_sub(y) of two u128.
wrapping_sub(x, y) ==
    IF NatLe(y, x) THEN NatSub(x, y) ELSE NatSub(NatAdd(x, TwoPow128), y)

\* x << s and x >> s of a u128, 0 <= s < 128.
shl(x, s) == wrapping(NatMul(x, NatPow2(s)))
shr(x, s) == NatDivMod(x, NatPow2(s))[1]

\* u128::leading_zeros
leading_zeros(v) ==
    CHOOSE s \in 0..N_UDWORD_BITS :
        IF v = NatZero THEN s = N_UDWORD_BITS
        ELSE s < N_UDWORD_BITS /\ NatLt(v, NatPow2(N_UDWORD_BITS - s))
             /\ NatLe(NatPow2(N_UDWORD_BITS - s - 1), v)

\* The loops of udiv256_by_128_to_128 that correct a quotient digit q whose
\* remainder is rhat, `while q >= B || q * vn0 > B * rhat + un { q -= 1;
\* rhat += vn1; if rhat >= B { break; } }`: the digit after the loop.  rhat is
\* below B whenever the condition is evaluated, and q is below B when q * vn0
\* is, so no product overflows.
RECURSIVE udiv_correct(_, _, _, _, _)
udiv_correct(q, rhat, vn1, vn0, un) ==
    IF NatLe(B, q) \/ NatLt(NatAdd(NatMul(B, rhat), un), NatMul(q, vn0))
    THEN IF NatLe(B, NatAdd(rhat, vn1)) THEN NatSub(q, <<1>>)
         ELSE udiv_correct(NatSub(q, <<1>>), NatAdd(rhat, vn1), vn1, vn0, un)
    ELSE q

\* udiv_digit with a fault: the digit is not corrected.
udiv_digit_uncorrected(qr, vn1, vn0, next) == qr[1]

\* A quotient digit of udiv256_by_128_to_128, given qr = <<un / vn1,
\* un - (un / vn1) * vn1>>.
udiv_digit(qr, vn1, vn0, next) == udiv_correct(qr[1], qr[2], vn1, vn0, next)

\* un.wrapping_mul(B).wrapping_add(next).wrapping_sub(q.wrapping_mul(v))
udiv_rest(un, next, q, v) ==
    wrapping_sub(wrapping(NatAdd(wrapping(NatMul(un, B)), next)),
                 wrapping(NatMul(q, v)))

\* udiv256_by_128_to_128 from `*r = ...` on: <<the quotient, *r>>.
udiv_result(v, un0, s, q1, un21, q0) ==
    <<NatAdd(NatMul(q1, B), q0), shr(udiv_rest(un21, un0, q0, v), s)>>

\* ... from `q0 = un21 / vn1` on.
udiv_q0(v, vn1, vn0, un0, s, q1, un21) ==
    udiv_result(v, un0, s, q1, un21,
                udiv_digit(NatDivMod(un21, vn1), vn1, vn0, un0))

\* ... from `un21 = ...` on.
udiv_un21(v, vn1, vn0, un128, un1, un0, s, q1) ==
    udiv_q0(v, vn1, vn0, un0, s, q1, udiv_rest(un128, un1, q1, v))

\* ... from `q1 = un128 / vn1` on.
udiv_q1(v, vn1, vn0, un128, un1, un0, s) ==
    udiv_un21(v, vn1, vn0, un128, un1, un0, s,
              udiv_digit(NatDivMod(un128, vn1), vn1, vn0, un1))

\* ... from `vn1 = v >> (N_UDWORD_BITS / 2)` on: v is normalized.
udiv_normalized(v, un128, un10, s) ==
    udiv_q1(v, shr(v, N_UDWORD_BITS \div 2), NatDivMod(v, B)[2], un128,
            shr(un10, N_UDWORD_BITS \div 2), NatDivMod(un10, B)[2], s)

\* ... from `if s > 0` on.
udiv_shift(u1, u0, v, s) ==
    IF s > 0
    THEN udiv_normalized(shl(v, s),
                         NatAdd(shl(u1, s), shr(u0, N_UDWORD_BITS - s)),
                         shl(u0, s), s)
    ELSE udiv_normalized(v, u1, u0, s)

\* udiv256_by_128_to_128(u1, u0, v, &mut r): <<the quotient, *r>>.
udiv256_by_128_to_128(u1, u0, v) == udiv_shift(u1, u0, v, leading_zeros(v))

\* U256::from_u128(low, high)
from_u128(low_, high_) == NatAdd(NatMul(high_, TwoPow128), low_)

\* Shl<u32> and Shr<u32> for U256 with the words of x, 0 < rhs < 256.
U256_shl_words(lo, hi, rhs) ==
    IF rhs < 128
    THEN from_u128(shl(lo, rhs), NatAdd(shl(hi, rhs), shr(lo, 128 - rhs)))
    ELSE from_u128(NatZero, shl(lo, rhs % 128))

U256_shr_words(lo, hi, rhs) ==
    IF rhs < 128
    THEN from_u128(NatAdd(shr(lo, rhs), shl(hi, 128 - rhs)), shr(hi, rhs))
    ELSE from_u128(shr(hi, rhs % 128), NatZero)

\* Shl<u32> and Shr<u32> for U256, rhs < 256.
U256_shl(x, rhs) == IF rhs = 0 THEN x ELSE U256_shl_words(low(x), high(x), rhs)
U256_shr(x, rhs) == IF rhs = 0 THEN x ELSE U256_shr_words(low(x), high(x), rhs)

\* The words <<low, high>> of a U256.
words(x) == <<low(x), high(x)>>

\* full_shl given the words of u_hi: the three words u[0], u[1], u[2].
full_shl_words(u_lo, u_hi) == <<u_lo, u_hi[1], u_hi[2]>>

\* full_shl
full_shl(x, shift) ==
    full_shl_words(shl(low(x), shift), words(U256_shr(x, N_UDWORD_BITS - shift)))

\* full_shr
full_shr(u, shift) ==
    IF shift > 0
    THEN from_u128(NatAdd(shr(u[1], shift), shl(u[2], N_UDWORD_BITS - shift)),
                   NatAdd(shr(u[2], shift), shl(u[3], N_UDWORD_BITS - shift)))
    ELSE from_u128(u[1], u[2])

\* split_u128_to_u128 given qr = <<x / B, x % B>>: <<lo, hi>>
split_of(qr) == <<qr[2], qr[1]>>

\* split_u128_to_u128: <<lo, hi>>
split_u128_to_u128(x) == split_of(NatDivMod(x, B))

\* fullmul_u128 from `let w_hi = ...` on: <<w_lo, w_hi>>.  The sums of
\* products of 64-bit halves stay below 2^128.
fullmul_w(a1, b1, w2, w3, t) ==
    <<NatAdd(shl(t, 64), w3), NatAdd(NatAdd(NatMul(a1, b1), w2), shr(t, 64))>>

\* ... from `t = a0 * b1 + w1` on, given <<w1, w2>>.
fullmul_t2(a0, a1, b1, w3, w12) ==
    fullmul_w(a1, b1, w12[2], w3, NatAdd(NatMul(a0, b1), w12[1]))

\* ... from `t = a1 * b0 + k` on, given <<w3, k>>.
fullmul_t1(a0, a1, b0, b1, w3k) ==
    fullmul_t2(a0, a1, b1, w3k[1],
               split_u128_to_u128(NatAdd(NatMul(a1, b0), w3k[2])))

\* ... from `let mut t = a0 * b0` on, given <<a0, a1>> and <<b0, b1>>.
fullmul_halves(a01, b01) ==
    fullmul_t1(a01[1], a01[2], b01[1], b01[2],
               split_u128_to_u128(NatMul(a01[1], b01[1])))

\* fullmul_u128: <<w_lo, w_hi>>
fullmul_u128(x, y) == fullmul_halves(split_u128_to_u128(x), split_u128_to_u128(y))

\* overflowing_add of two u128 given their sum: <<the sum, whether it wrapped>>
overflowing(sum) == <<wrapping(sum), ~NatLt(sum, TwoPow128)>>

\* u128::overflowing_add
overflowing_add(x, y) == overflowing(NatAdd(x, y))

\* fullmul_u256_u128 given the two products and the sum of acc[1] and lo:
\* the three words acc[0], acc[1], acc[2].
fullmul_acc(first, second, sum) ==
    <<first[1], sum[1], NatAdd(second[2], IF sum[2] THEN <<1>> ELSE NatZero)>>

\* fullmul_u256_u128 given the products of b with the two words of a.
fullmul_sum(products) ==
    fullmul_acc(products[1], products[2],
                overflowing_add(products[1][2], products[2][1]))

\* fullmul_u256_u128
fullmul_u256_u128(x, y) ==
    IF y = NatZero THEN <<NatZero, NatZero, NatZero>>
    ELSE fullmul_sum([i \in 1..2 |-> fullmul_u128(words(x)[i], y)])

\* add_carry and sub_carry given res1 = b.overflowing_add(c as u128):
\* <<the word, the carry>>
add_carry_res(x, res1, res2) == <<res2[1], res1[2] \/ res2[2]>>
sub_carry_res(x, res1) == <<wrapping_sub(x, res1[1]), res1[2] \/ NatLt(x, res1[1])>>

carry_res1(y, c) == overflowing_add(y, IF c THEN <<1>> ELSE NatZero)

add_carry_res1(x, res1) == add_carry_res(x, res1, overflowing_add(x, res1[1]))

add_carry(x, y, c) == add_carry_res1(x, carry_res1(y, c))
sub_carry(x, y, c) == sub_carry_res(x, carry_res1(y, c))

\* `(u[i], c) = sub_carry(u[i], w[i], c)` for i from the given one to 2 (the
\* third word): the words of u, then the last carry.
RECURSIVE sub_words(_, _, _, _)
sub_words_next(u, w, i, res) == <<res[1]>> \o sub_words(u, w, i + 1, res[2])
sub_words(u, w, i, c) ==
    IF i > 3 THEN <<c>> ELSE sub_words_next(u, w, i, sub_carry(u[i], w[i], c))

\* `(u[i], c) = add_carry(u[i], w[i], c)` likewise; the third word is
\* u[2].wrapping_add(c as u128).
RECURSIVE add_words(_, _, _, _)
add_words_next(u, w, i, res) == <<res[1]>> \o add_words(u, w, i + 1, res[2])
add_words(u, w, i, c) ==
    IF i > 3 THEN <<c>> ELSE add_words_next(u, w, i, add_carry(u[i], w[i], c))

\* The loop of knuth_div_mod that corrects q_hat (step D3): q_hat after it.
RECURSIVE knuth_correct(_, _, _, _, _)
knuth_another(q_hat, r_hat, v_n_1, v_n_2, u0, lohi, sum) ==
    IF ~(NatLt(r_hat, lohi[2]) \/ (lohi[2] = r_hat /\ NatLt(u0, lohi[1])))
    THEN q_hat
    ELSE IF sum[2] THEN NatSub(q_hat, <<1>>)
    ELSE knuth_correct(NatSub(q_hat, <<1>>), sum[1], v_n_1, v_n_2, u0)

knuth_correct(q_hat, r_hat, v_n_1, v_n_2, u0) ==
    knuth_another(q_hat, r_hat, v_n_1, v_n_2, u0, fullmul_u128(q_hat, v_n_2),
                  overflowing_add(r_hat, v_n_1))

\* Step D3 given what udiv256_by_128_to_128 returned.
knuth_q_hat_of(qr, u, v_n_1, v_n_2) == knuth_correct(qr[1], qr[2], v_n_1, v_n_2, u[1])

\* Step D3 of knuth_div_mod: the guess q_hat of the quotient.
knuth_q_hat(u, v_n_1, v_n_2) ==
    IF NatLt(u[3], v_n_1)
    THEN knuth_q_hat_of(udiv256_by_128_to_128(u[3], u[2], v_n_1), u, v_n_1, v_n_2)
    ELSE NatSub(TwoPow128, <<1>>)

\* Steps D5, D6 and D8 of knuth_div_mod given the difference u - q_hat * v and
\* its carry: v is added back when the difference wrapped.
knuth_add_back(diff, v_n_1, v_n_2, q_hat, shift) ==
    IF diff[4]
    THEN <<from_u128(NatSub(q_hat, <<1>>), NatZero),
           full_shr(add_words(diff, <<v_n_2, v_n_1, NatZero>>, 1, FALSE), shift)>>
    ELSE <<from_u128(q_hat, NatZero), full_shr(diff, shift)>>

\* Step D4 on, given q_hat.
knuth_subtract(u, v, v_n_1, v_n_2, q_hat, shift) ==
    knuth_add_back(sub_words(u, fullmul_u256_u128(v, q_hat), 1, FALSE),
                   v_n_1, v_n_2, q_hat, shift)

\* knuth_div_mod once u and v are shifted, given the words of v.
knuth_words(u, v, v_n, shift) ==
    knuth_subtract(u, v, v_n[2], v_n[1], knuth_q_hat(u, v_n[2], v_n[1]), shift)

knuth_shifted(u, v, shift) == knuth_words(u, v, words(v), shift)

knuth_shift(u, v, shift) ==
    knuth_shifted(full_shl(u, shift), U256_shl(v, shift), shift)

\* knuth_div_mod: <<quotient, remainder>>
knuth_div_mod(u, v) == knuth_shift(u, v, leading_zeros(high(v)))

\* The last branch but one of U256::div_rem, given qr = <<self.high() /
\* other.low(), self.high() % other.low()>>.
div_rem_high_low(x_lo, other_lo, qr, udiv) == <<from_u128(udiv[1], qr[1]), udiv[2]>>

div_rem_high(x_lo, other_lo, qr) ==
    div_rem_high_low(x_lo, other_lo, qr, udiv256_by_128_to_128(qr[2], x_lo, other_lo))

\* U256::div_rem given the words of self and other.
div_rem_words(x, other, xw, ow) ==
    IF xw[2] = NatZero /\ ow[2] = NatZero THEN NatDivMod(xw[1], ow[1])
    ELSE IF NatLt(x, other) THEN <<NatZero, x>>
    ELSE IF ow[2] = NatZero
    THEN IF NatLt(xw[2], ow[1]) THEN udiv256_by_128_to_128(xw[2], xw[1], ow[1])
         ELSE div_rem_high(xw[1], ow[1], NatDivMod(xw[2], ow[1]))
    ELSE knuth_div_mod(x, other)

\* U256::div_rem with a divisor that is not zero, branch by branch:
\* <<quotient, remainder>>.
U256_div_rem(x, other) == div_rem_words(x, other, words(x), words(other))

(***************************************************************************)
(* Decimal (src/src/decimal.rs): the value (-1)^negative * int_val *        *)
(* 10^(-scale).                                                            *)
(***************************************************************************)
from_raw_parts(int_val, scale, negative) ==
    [int_val |-> int_val, scale |-> scale, negative |-> negative]

ZERO == from_raw_parts(NatZero, 0, FALSE)
ONE == from_raw_parts(<<1>>, 0, FALSE)
MINUS_ONE == from_raw_parts(<<1>>, 0, TRUE)

\* Results: Option<Decimal> and Result<Decimal, _> are Some / None; a panic of
\* the program (an assertion, an index out of a table) is Panic.
Some(d) == [tag |-> "Some", val |-> d]
None == [tag |-> "None", val |-> ZERO]
Panic == [tag |-> "Panic", val |-> ZERO]

from_parts_unchecked(int_val, scale, negative) ==
    IF int_val # NatZero THEN from_raw_parts(int_val, scale, negative) ELSE ZERO

from_parts(int_val, scale, negative) ==
    IF NatLt(MAX_I128_REPR, int_val) THEN None
    ELSE IF scale >= MAX_SCALE + MAX_PRECISION \/ scale < MIN_SCALE THEN None
    ELSE Some(from_parts_unchecked(int_val, scale, negative))

precision(d) == count_digits(d.int_val)

is_zero(d) == d.int_val = NatZero

abs(d) == [d EXCEPT !.negative = FALSE]

\* Neg for Decimal (src/src/ops.rs) and Decimal::neg_mut.
neg(d) == IF ~is_zero(d) THEN [d EXCEPT !.negative = ~d.negative] ELSE d

(***************************************************************************)
(* The binary format.                                                      *)
(***************************************************************************)
\* x & mask for a mask that is a power of two.
BitAnd(x, mask) == ((x \div mask) % 2) * mask

\* A value below Base as an integer.
NatToSmall(x) == IF x = << >> THEN 0 ELSE x[1]

\* u128::to_le_bytes: the n low bytes of x, least significant first.
RECURSIVE to_le_bytes(_, _)
to_le_bytes(x, n) ==
    IF n = 0 THEN << >>
    ELSE LET qr == NatDivModSmall(x, U8_MAX + 1)
         IN  <<NatToSmall(qr[2])>> \o to_le_bytes(qr[1], n - 1)

\* u128::from_le_bytes.
RECURSIVE from_le_bytes(_)
from_le_bytes(bytes) ==
    IF bytes = << >> THEN NatZero
    ELSE NatAdd(NatOf(Head(bytes)), NatMulSmall(from_le_bytes(Tail(bytes)), U8_MAX + 1))

\* `as u8` of an i16.
as_u8(x) == x % (U8_MAX + 1)

encode_header(d) ==
    LET sign       == IF d.negative THEN 1 ELSE 0
        scale_sign == IF d.scale < 0 THEN 0 ELSE 1
        abs_scale  == IF d.scale < 0 THEN as_u8(-d.scale) ELSE as_u8(d.scale)
        flags      == scale_sign * (2 ^ SCALE_SHIFT) + sign
    IN  <<flags, abs_scale>>

\* The loop of internal_encode: the index (from 0) of the highest non-zero byte.
RECURSIVE highest_byte(_, _)
highest_byte(int_bytes, id) ==
    IF id > 0 /\ int_bytes[id + 1] = 0 THEN highest_byte(int_bytes, id - 1) ELSE id

\* The writer: an io::Write with room for `room` more bytes, such as a
\* &mut [u8].  write takes as many bytes of buf as there is room for and
\* returns how many it took; write_all fails unless it takes them all.
write(room_, buf) == Min(Len(buf), room_)

\* What an encoder did: Ok(size), Err or a panic, and the bytes the writer took.
Written(tag, out, size_) == [tag |-> tag, bytes |-> out, size |-> size_]

\* internal_encode.  debug_assertions: whether the build checks
\* debug_assert_eq!.
internal_encode(d, COMPACT, room_, debug_assertions) ==
    LET int_bytes == to_le_bytes(d.int_val, 16)
        id        == highest_byte(int_bytes, 15)
    IN  IF COMPACT /\ id < 2 /\ d.scale = 0 /\ ~d.negative
        THEN IF id = 0
             THEN LET size_ == write(room_, SubSeq(int_bytes, 1, 1))
                  IN  IF debug_assertions /\ size_ # 1
                      THEN Written("Panic", SubSeq(int_bytes, 1, size_), 0)
                      ELSE Written("Ok", SubSeq(int_bytes, 1, size_), 1)
             ELSE LET size_ == write(room_, SubSeq(int_bytes, 1, 2))
                  IN  IF debug_assertions /\ size_ # 2
                      THEN Written("Panic", SubSeq(int_bytes, 1, size_), 0)
                      ELSE Written("Ok", SubSeq(int_bytes, 1, size_), 2)
        ELSE LET out == encode_header(d) \o SubSeq(int_bytes, 1, id + 1)
             IN  IF write(room_, out) < Len(out)
                 THEN Written("Err", SubSeq(out, 1, room_), 0)
                 ELSE Written("Ok", out, id + 3)

encode(d, room_, debug_assertions) ==
    internal_encode(d, FALSE, room_, debug_assertions)
compact_encode(d, room_, debug_assertions) ==
    internal_encode(d, TRUE, room_, debug_assertions)

\* Decimal::decode of a non-empty byte string.
decode(bytes) ==
    LET len == Len(bytes)
    IN  IF len <= 2
        THEN LET int_val == IF len = 1 THEN NatOf(bytes[1])
                            ELSE NatOf(bytes[2] * (U8_MAX + 1) + bytes[1])
             IN  from_parts_unchecked(int_val, 0, FALSE)
        ELSE LET flags     == bytes[1]
                 abs_scale == bytes[2]
                 negative  == BitAnd(flags, SIGN_MASK) = 1
                 scale     == IF BitAnd(flags, SCALE_MASK) # 0 THEN abs_scale
                              ELSE -abs_scale
                 int_bytes == IF len < MAX_BINARY_SIZE THEN SubSeq(bytes, 3, len)
                              ELSE SubSeq(bytes, 3, MAX_BINARY_SIZE)
             IN  from_parts_unchecked(from_le_bytes(int_bytes), scale, negative)

(***************************************************************************)
(* Rounding and normalization.                                             *)
(***************************************************************************)
ceil(d) ==
    IF d.scale <= 0 THEN d
    ELSE IF d.scale > MAX_PRECISION THEN (IF d.negative THEN ZERO ELSE ONE)
    ELSE LET divisor == low(POWERS_10(d.scale))
             qr      == NatDivMod(d.int_val, divisor)
             int_val == IF ~d.negative /\ qr[2] # NatZero
                        THEN NatAdd(qr[1], <<1>>) ELSE qr[1]
         IN  from_parts_unchecked(int_val, 0, d.negative)

\* floor with a fault: a negative value is never moved away from zero.
floor_toward_zero(d) ==
    IF d.scale <= 0 THEN d
    ELSE IF d.scale > MAX_PRECISION THEN ZERO
    ELSE from_parts_unchecked(NatDivMod(d.int_val, low(POWERS_10(d.scale)))[1],
                              0, d.negative)

floor(d) ==
    IF d.scale <= 0 THEN d
    ELSE IF d.scale > MAX_PRECISION THEN (IF d.negative THEN MINUS_ONE ELSE ZERO)
    ELSE LET divisor == low(POWERS_10(d.scale))
             qr      == NatDivMod(d.int_val, divisor)
             int_val == IF ~d.negative \/ qr[2] = NatZero
                        THEN qr[1] ELSE NatAdd(qr[1], <<1>>)
         IN  from_parts_unchecked(int_val, 0, d.negative)

\* scale.max(MIN_SCALE).min(MAX_SCALE + MAX_PRECISION - 1)
clamp_scale(scale) == Min(Max(scale, MIN_SCALE), MAX_SCALE + MAX_PRECISION - 1)

trunc(d, scale) ==
    IF is_zero(d) THEN ZERO
    ELSE LET real_scale == clamp_scale(scale)
             e          == d.scale - real_scale
         IN  IF d.scale <= real_scale THEN d
             ELSE IF e > MAX_PRECISION THEN ZERO
             ELSE from_parts_unchecked(NatDivMod(d.int_val, low(POWERS_10(e)))[1],
                                       real_scale, d.negative)

\* round with a fault: the digits are dropped without rounding.
round_toward_zero(d, scale) ==
    IF is_zero(d) THEN ZERO
    ELSE LET real_scale == clamp_scale(scale)
             e          == d.scale - real_scale
         IN  IF d.scale <= real_scale THEN d
             ELSE IF e > MAX_PRECISION THEN ZERO
             ELSE from_parts_unchecked(NatDivMod(d.int_val, low(POWERS_10(e)))[1],
                                       real_scale, d.negative)

\* The u128 sum int_val + ROUNDINGS[e] stays below 2^128 for every
\* int_val <= 10^38, the significands the model feeds to round.
round(d, scale) ==
    IF is_zero(d) THEN ZERO
    ELSE LET real_scale == clamp_scale(scale)
             e          == d.scale - real_scale
         IN  IF d.scale <= real_scale THEN d
             ELSE IF e > MAX_PRECISION THEN ZERO
             ELSE from_parts_unchecked(
                      NatDivMod(NatAdd(d.int_val, low(ROUNDINGS(e))),
                                low(POWERS_10(e)))[1],
                      real_scale, d.negative)

\* An i16 result: the two's complement value of x.
wrap_i16(x) == ((x - I16_MIN) % (2 ^ 16)) + I16_MIN

\* round_with_precision(&mut self, precision, scale): the flag returned and the
\* value left in self.  The fields are written one by one.
Rounded(overflow, d) == [tag |-> "Some", overflow |-> overflow, val |-> d]
RoundedPanic == [tag |-> "Panic", overflow |-> FALSE, val |-> ZERO]

\* overflow_checks: whether the build checks integer overflow.  The i16
\* difference scale - self.scale panics on overflow in a build that does and
\* wraps in a build that does not.
round_with_precision(d, prec_, scale, overflow_checks) ==
    IF is_zero(d) THEN Rounded(FALSE, d)
    ELSE IF overflow_checks /\ wrap_i16(scale - d.scale) # scale - d.scale
    THEN RoundedPanic
    ELSE LET e == wrap_i16(scale - d.scale)
         IN  IF e >= prec_ THEN Rounded(TRUE, d)
             ELSE IF e < -precision(d) THEN Rounded(FALSE, ZERO)
             ELSE IF e >= 0
             THEN IF prec_ - e >= POWERS_10_LEN THEN RoundedPanic
                  ELSE LET ceiling == low(POWERS_10(prec_ - e))
                       IN  IF NatLe(ceiling, d.int_val) THEN Rounded(TRUE, d)
                           ELSE IF e = 0 THEN Rounded(FALSE, d)
                           ELSE IF e >= POWERS_10_LEN THEN RoundedPanic
                           ELSE LET val == mul128(d.int_val, low(POWERS_10(e)))
                                IN  Rounded(FALSE, [d EXCEPT !.int_val = low(val),
                                                             !.scale = scale])
             ELSE IF prec_ >= POWERS_10_LEN THEN RoundedPanic
                  ELSE LET div_result == div128_round(d.int_val, low(POWERS_10(-e)))
                           ceiling    == low(POWERS_10(prec_))
                           int_val    == low(div_result)
                       IN  IF NatLe(ceiling, int_val)
                           THEN Rounded(TRUE, [d EXCEPT !.int_val = int_val])
                           ELSE Rounded(FALSE, [d EXCEPT !.int_val = int_val,
                                                         !.scale = scale])

\* The first loop of normalize_to_scale: drop trailing zeros while the scale is
\* above the target.
RECURSIVE normalize_down(_, _, _)
normalize_down(int_val, current_scale, scale) ==
    IF current_scale > scale /\ ~(NatToSmall(NatDivModSmall(int_val, 10)[2]) > 0)
    THEN normalize_down(NatDivModSmall(int_val, 10)[1], current_scale - 1, scale)
    ELSE <<int_val, current_scale>>

\* The second loop: append zeros while the scale is below the target and the
\* significand is below 10^37.
RECURSIVE normalize_up(_, _, _)
normalize_up(int_val, current_scale, scale) ==
    IF current_scale < scale /\ NatLt(int_val, NatPow10(MAX_PRECISION - 1))
    THEN normalize_up(NatMulSmall(int_val, 10), current_scale + 1, scale)
    ELSE <<int_val, current_scale>>

\* normalize_to_scale with a fault: the second loop is left out.
normalize_to_scale_down_only(d, scale) ==
    IF is_zero(d) THEN ZERO
    ELSE IF d.scale = scale THEN d
    ELSE LET down == normalize_down(d.int_val, d.scale, scale)
         IN  from_parts_unchecked(down[1], down[2], d.negative)

normalize_to_scale(d, scale) ==
    IF is_zero(d) THEN ZERO
    ELSE IF d.scale = scale THEN d
    ELSE LET down == normalize_down(d.int_val, d.scale, scale)
             up   == normalize_up(down[1], down[2], scale)
         IN  from_parts_unchecked(up[1], up[2], d.negative)

normalize(d) == normalize_to_scale(d, 0)

(***************************************************************************)
(* Comparison.                                                             *)
(***************************************************************************)
\* rescale_cmp with a fault: Less when the scales differ by more than 38.
rescale_cmp_far_less(d, other) ==
    LET e == other.scale - d.scale
    IN  IF e > MAX_PRECISION THEN -1
        ELSE cmp128(mul128(d.int_val, low(POWERS_10(e))), other.int_val)

\* rescale_cmp, for d.scale < other.scale: -1 (Less), 0 (Equal), 1 (Greater).
rescale_cmp(d, other) ==
    LET e == other.scale - d.scale
    IN  IF e > MAX_PRECISION THEN 1
        ELSE cmp128(mul128(d.int_val, low(POWERS_10(e))), other.int_val)

\* Ord::cmp.
cmp(d, other) ==
    IF d.negative # other.negative THEN (IF d.negative THEN -1 ELSE 1)
    ELSE LET left  == IF d.negative THEN other ELSE d
             right == IF d.negative THEN d ELSE other
         IN  IF is_zero(left) THEN (IF is_zero(right) THEN 0 ELSE -1)
             ELSE IF is_zero(right) THEN 1
             ELSE IF left.scale = right.scale THEN NatCmp(left.int_val, right.int_val)
             ELSE IF left.scale < right.scale THEN rescale_cmp(left, right)
             ELSE -rescale_cmp(right, left)

\* PartialEq::eq.
eq(d, other) == cmp(d, other) = 0

\* Hash::hash: what is fed to the hasher.
hash(d) ==
    LET n == normalize(d)
    IN  <<n.int_val, n.scale, n.negative>>

(***************************************************************************)
(* Arithmetic.                                                             *)
(***************************************************************************)
\* adjust_scale with a fault: an underflow keeps the sign of the operation.
adjust_scale_signed_zero(int_val, scale, negative) ==
    LET digits == count_digits(int_val)
        s      == scale - digits
    IN  IF s >= MAX_SCALE THEN Some(from_raw_parts(NatZero, 0, negative))
        ELSE IF s < MIN_SCALE THEN None
        ELSE IF digits > MAX_PRECISION
        THEN LET shift_scale == digits - MAX_PRECISION
                 dividend    == NatAdd(int_val, ROUNDINGS(shift_scale))
             IN  Some(from_parts_unchecked(
                          low(div_rem(dividend, POWERS_10(shift_scale))[1]),
                          scale - shift_scale, negative))
        ELSE Some(from_parts_unchecked(low(int_val), scale, negative))

adjust_scale(int_val, scale, negative) ==
    LET digits == count_digits(int_val)
        s      == scale - digits
    IN  IF s >= MAX_SCALE THEN Some(ZERO)
        ELSE IF s < MIN_SCALE THEN None
        ELSE IF digits > MAX_PRECISION
        THEN LET shift_scale == digits - MAX_PRECISION
                 rounding    == IF shift_scale <= MAX_PRECISION
                                THEN low(ROUNDINGS(shift_scale))
                                ELSE ROUNDINGS(shift_scale)
                 power       == IF shift_scale <= MAX_PRECISION
                                THEN low(POWERS_10(shift_scale))
                                ELSE POWERS_10(shift_scale)
                 dividend    == NatAdd(int_val, rounding)
             IN  IF overflows256(dividend) THEN Panic
                 ELSE Some(from_parts_unchecked(low(div_rem(dividend, power)[1]),
                                                scale - shift_scale, negative))
        ELSE Some(from_parts_unchecked(low(int_val), scale, negative))

\* U256::checked_mul, checked_add and checked_sub: None on overflow.
U256_checked_mul(x, other) ==
    LET v == NatMul(x, other)
    IN  IF overflows256(v) THEN [some |-> FALSE, val |-> NatZero]
        ELSE [some |-> TRUE, val |-> v]

U256_checked_add(x, other) ==
    LET v == NatAdd(x, other)
    IN  IF overflows256(v) THEN [some |-> FALSE, val |-> NatZero]
        ELSE [some |-> TRUE, val |-> v]

U256_checked_sub(x, other) ==
    IF NatLt(x, other) THEN [some |-> FALSE, val |-> NatZero]
    ELSE [some |-> TRUE, val |-> NatSub(x, other)]

\* rescale_add with a fault: the significand of the operand with the smaller
\* scale is not multiplied up to the larger scale.
rescale_add_unscaled(d, other, negative) ==
    adjust_scale(NatAdd(d.int_val, other.int_val), other.scale, negative)

\* rescale_add, for d.scale < other.scale.
rescale_add(d, other, negative) ==
    LET e == other.scale - d.scale
    IN  IF e > MAX_PRECISION
        THEN IF is_zero(d)
             THEN Some(from_parts_unchecked(other.int_val, other.scale, negative))
             ELSE IF is_zero(other)
             THEN Some(from_parts_unchecked(d.int_val, d.scale, negative))
             ELSE LET self_int_val == IF e < POWERS_10_LEN
                                      THEN U256_checked_mul(POWERS_10(e), d.int_val)
                                      ELSE [some |-> FALSE, val |-> NatZero]
                      int_val      == IF self_int_val.some
                                      THEN U256_checked_add(self_int_val.val, other.int_val)
                                      ELSE [some |-> FALSE, val |-> NatZero]
                  IN  IF int_val.some
                      THEN adjust_scale(int_val.val, other.scale, negative)
                      ELSE Some(from_parts_unchecked(d.int_val, d.scale, negative))
        ELSE LET self_int_val == mul128(d.int_val, low(POWERS_10(e)))
                 int_val      == NatAdd(self_int_val, other.int_val)
             IN  IF overflows256(int_val) THEN Panic
                 ELSE adjust_scale(int_val, other.scale, negative)

\* add_internal with a fault: a sum of equal scales is never passed to
\* adjust_scale.
add_internal_unadjusted(d, other, negative) ==
    IF d.scale # other.scale
    THEN IF d.scale < other.scale THEN rescale_add(d, other, negative)
         ELSE rescale_add(other, d, negative)
    ELSE Some(from_parts_unchecked(low(add128(d.int_val, other.int_val)),
                                   d.scale, negative))

add_internal(d, other, negative) ==
    IF d.scale # other.scale
    THEN IF d.scale < other.scale THEN rescale_add(d, other, negative)
         ELSE rescale_add(other, d, negative)
    ELSE LET int_val == add128(d.int_val, other.int_val)
         IN  IF ~is_decimal_overflowed(int_val) /\ d.scale >= 0
             THEN Some(from_parts_unchecked(low(int_val), d.scale, negative))
             ELSE adjust_scale(int_val, d.scale, negative)

\* rescale_sub with a fault: the operand with the larger scale is returned.
rescale_sub_far_other(d, other, negative) ==
    Some(from_parts_unchecked(other.int_val, other.scale, negative))

\* rescale_sub, for d.scale < other.scale.
rescale_sub(d, other, negative) ==
    LET e == other.scale - d.scale
    IN  IF e > MAX_PRECISION
        THEN LET self_int_val == IF e < POWERS_10_LEN
                                 THEN U256_checked_mul(POWERS_10(e), d.int_val)
                                 ELSE [some |-> FALSE, val |-> NatZero]
                 int_val      == IF self_int_val.some
                                 THEN U256_checked_sub(self_int_val.val, other.int_val)
                                 ELSE [some |-> FALSE, val |-> NatZero]
             IN  IF int_val.some
                 THEN adjust_scale(int_val.val, other.scale, negative)
                 ELSE Some(from_parts_unchecked(d.int_val, d.scale, negative))
        ELSE LET self_int_val == mul128(d.int_val, low(POWERS_10(e)))
             IN  IF NatLe(other.int_val, self_int_val)
                 THEN adjust_scale(NatSub(self_int_val, other.int_val),
                                   other.scale, negative)
                 ELSE adjust_scale(NatSub(other.int_val, self_int_val),
                                   other.scale, ~negative)

\* sub_internal with a fault: the sign is not flipped when the operands are
\* swapped for rescale_sub.
sub_internal_unflipped(d, other, negative) ==
    IF other.int_val = NatZero THEN Some(d)
    ELSE IF d.int_val = NatZero
    THEN Some(from_parts_unchecked(other.int_val, other.scale, ~negative))
    ELSE IF d.scale # other.scale
    THEN IF d.scale < other.scale THEN rescale_sub(d, other, negative)
         ELSE rescale_sub(other, d, negative)
    ELSE IF NatLe(other.int_val, d.int_val)
    THEN Some(from_parts_unchecked(NatSub(d.int_val, other.int_val), d.scale, negative))
    ELSE Some(from_parts_unchecked(NatSub(other.int_val, d.int_val), d.scale, ~negative))

sub_internal(d, other, negative) ==
    IF other.int_val = NatZero THEN Some(d)
    ELSE IF d.int_val = NatZero
    THEN Some(from_parts_unchecked(other.int_val, other.scale, ~negative))
    ELSE IF d.scale # other.scale
    THEN IF d.scale < other.scale THEN rescale_sub(d, other, negative)
         ELSE rescale_sub(other, d, ~negative)
    ELSE IF NatLe(other.int_val, d.int_val)
    THEN Some(from_parts_unchecked(NatSub(d.int_val, other.int_val), d.scale, negative))
    ELSE Some(from_parts_unchecked(NatSub(other.int_val, d.int_val), d.scale, ~negative))

checked_add(d, other) ==
    IF d.negative # other.negative
    THEN IF other.negative THEN sub_internal(d, other, d.negative)
         ELSE sub_internal(other, d, other.negative)
    ELSE add_internal(d, other, d.negative)

checked_sub(d, other) ==
    IF d.negative # other.negative THEN add_internal(d, other, d.negative)
    ELSE IF d.negative THEN sub_internal(other, d, ~d.negative)
    ELSE sub_internal(d, other, d.negative)

checked_mul(d, other) ==
    IF is_zero(d) \/ is_zero(other) THEN Some(ZERO)
    ELSE LET scale    == d.scale + other.scale
             negative == d.negative # other.negative
             int_val  == mul128(d.int_val, other.int_val)
         IN  IF ~is_decimal_overflowed(int_val) /\ scale = 0
             THEN Some(from_parts_unchecked(low(int_val), 0, negative))
             ELSE adjust_scale(int_val, scale, negative)

\* checked_div with a fault: the scale of the divisor is added to the scale of
\* the quotient.
checked_div_added_scale(d, other) ==
    IF is_zero(other) THEN None
    ELSE IF is_zero(d) THEN Some(ZERO)
    ELSE LET other_precision == precision(other)
             self_precision  == precision(d)
             shift_precision == IF other_precision > self_precision
                                THEN other_precision - self_precision ELSE 0
             self_int_val    == IF other_precision > self_precision
                                THEN NatMul(POWERS_10(MAX_PRECISION + shift_precision),
                                            d.int_val)
                                ELSE mul128(d.int_val, low(POWERS_10(MAX_PRECISION)))
             negative        == d.negative # other.negative
             scale           == d.scale + other.scale + MAX_PRECISION + shift_precision
         IN  adjust_scale(div128_round(self_int_val, other.int_val), scale, negative)

checked_div(d, other) ==
    IF is_zero(other) THEN None
    ELSE IF is_zero(d) THEN Some(ZERO)
    ELSE LET other_precision == precision(other)
             self_precision  == precision(d)
             shift_precision == IF other_precision > self_precision
                                THEN other_precision - self_precision ELSE 0
             self_int_val    == IF other_precision > self_precision
                                THEN NatMul(POWERS_10(MAX_PRECISION + shift_precision),
                                            d.int_val)
                                ELSE mul128(d.int_val, low(POWERS_10(MAX_PRECISION)))
             negative        == d.negative # other.negative
             scale           == d.scale - other.scale + MAX_PRECISION + shift_precision
         IN  IF overflows256(self_int_val) THEN Panic
             ELSE adjust_scale(div128_round(self_int_val, other.int_val), scale, negative)

\* The loop of checked_rem with a fault: it stops after its first round.
rem_loop_once(res, other) ==
    LET scale   == Min(MAX_PRECISION, other.scale - res.scale)
        res_val == mul128(res.int_val, low(POWERS_10(scale)))
        rem     == div_rem(res_val, other.int_val)[2]
    IN  from_parts_unchecked(low(rem), res.scale + scale, res.negative)

\* The loop of checked_rem for d.scale < other.scale.
RECURSIVE rem_loop(_, _)
rem_loop(res, other) ==
    LET scale   == Min(MAX_PRECISION, other.scale - res.scale)
        res_val == mul128(res.int_val, low(POWERS_10(scale)))
        rem     == div_rem(res_val, other.int_val)[2]
        next    == from_parts_unchecked(low(rem), res.scale + scale, res.negative)
    IN  IF next.scale = other.scale \/ is_zero(next) THEN next
        ELSE rem_loop(next, other)

checked_rem(d, other) ==
    IF is_zero(other) THEN None
    ELSE IF is_zero(d) THEN Some(ZERO)
    ELSE IF d.scale = other.scale
    THEN Some(from_parts_unchecked(NatDivMod(d.int_val, other.int_val)[2],
                                   d.scale, d.negative))
    ELSE IF d.scale < other.scale THEN Some(rem_loop(d, other))
    ELSE LET e == d.scale - other.scale
         IN  IF e > MAX_PRECISION THEN Some(d)
             ELSE LET other_int_val == mul128(other.int_val, low(POWERS_10(e)))
                      rem           == div_rem(d.int_val, other_int_val)[2]
                  IN  Some(from_parts_unchecked(low(rem), d.scale, d.negative))

(***************************************************************************)
(* Exponential and power.  The tables NATURAL_EXP and NATURAL_EXP_NEG and   *)
(* the two Taylor series are not evaluated: an entry of a table is the     *)
(* table's name and the index read, and what a series or the final product *)
(* evaluates to is an argument of the operator.                            *)
(***************************************************************************)
TWO == from_raw_parts(<<2>>, 0, FALSE)

\* The constants of exp.
UPPER_BOUND == from_parts_unchecked(NatOf(291), 0, FALSE)
LOWER_BOUND == from_parts_unchecked(NatOf(300), 0, TRUE)

\* No table entry was read.
NoEntry == [table |-> "none", index |-> 0, reciprocal |-> FALSE]
NoSplit == [a |-> ZERO, b |-> None, exp_a |-> NoEntry]

\* exp_a in exp: where e^a is taken from, given a = x.trunc(0).  reciprocal is
\* the branch Decimal::ONE.checked_div(&NATURAL_EXP[..]).
exp_a(a_) ==
    IF ~a_.negative
    THEN [table |-> "NATURAL_EXP", index |-> NatToSmall(a_.int_val), reciprocal |-> FALSE]
    ELSE IF NatLt(a_.int_val, UPPER_BOUND.int_val)
    THEN [table |-> "NATURAL_EXP", index |-> NatToSmall(a_.int_val), reciprocal |-> TRUE]
    ELSE [table |-> "NATURAL_EXP_NEG",
          index |-> NatToSmall(NatSub(a_.int_val, UPPER_BOUND.int_val)),
          reciprocal |-> FALSE]

\* The range reduction of exp: let a = x.trunc(0); let b = x.checked_sub(&a)?;
\* and the table entry read for a.
exp_split_a_b(a_, b_) ==
    [a |-> a_, b |-> b_, exp_a |-> IF b_.tag = "Some" THEN exp_a(a_) ELSE NoEntry]

exp_split_a(x, a_) == exp_split_a_b(a_, checked_sub(x, a_))

exp_split(x) == exp_split_a(x, trunc(x, 0))

\* Whether exp returns before the range reduction.
exp_returns_early(x) ==
    is_zero(x) \/ cmp(x, UPPER_BOUND) >= 0 \/ cmp(x, LOWER_BOUND) <= 0

\* Decimal::exp.  product is what exp_a, or exp_a.checked_mul(&exp_b), comes to.
exp(x, product) ==
    IF is_zero(x) THEN Some(ONE)
    ELSE IF cmp(x, UPPER_BOUND) >= 0 THEN None
    ELSE IF cmp(x, LOWER_BOUND) <= 0 THEN Some(ZERO)
    ELSE IF exp_split(x).b.tag # "Some" THEN None
    ELSE product

\* Decimal::ln.  series is what the reduction and the Taylor series come to.
ln(x, series) ==
    IF x.negative \/ is_zero(x) THEN None
    ELSE IF eq(x, ONE) THEN Some(ZERO)
    ELSE series

\* The end of pow_decimal: the sign of the result, given result = exp.exp()?
\* and b.checked_rem(&Decimal::TWO)?.
pow_decimal_result(d, result, rem) ==
    IF result.tag # "Some" THEN None
    ELSE IF rem.tag # "Some" THEN None
    ELSE IF ~d.negative /\ eq(rem.val, ONE) THEN Some(neg(result.val))
    ELSE result

\* The argument of exp in pow_decimal: let ln = x.ln()?; let exp =
\* ln.checked_mul(&b)?.
pow_decimal_exp(d, exponent, series) ==
    LET ln_ == ln(abs(d), series)
    IN  IF ln_.tag # "Some" THEN None ELSE checked_mul(ln_.val, exponent)

\* Decimal::pow_decimal, exp_ being pow_decimal_exp(d, exponent, series).
pow_decimal(d, exponent, exp_, product) ==
    IF exp_.tag # "Some" THEN None
    ELSE pow_decimal_result(d, exp(exp_.val, product), checked_rem(exponent, TWO))

\* A branch of checked_pow that is not evaluated: pow_u64, pow_i64 and the
\* product x^a * x^b for a fractional exponent.
NotEvaluated == [tag |-> "NotEvaluated", val |-> ZERO]

\* Decimal::pow_decimal_integral: the exponent is below i16::MIN or above
\* u16::MAX, and the power goes through pow_decimal, or it is in the range of
\* pow_i64 and pow_u64.
pow_decimal_integral(d, exponent, exp_, product) ==
    IF IF exponent.negative
       THEN cmp(exponent, from_raw_parts(NatOf(-I16_MIN), 0, TRUE)) < 0
       ELSE cmp(exponent, from_raw_parts(NatOf(U16_MAX), 0, FALSE)) > 0
    THEN pow_decimal(d, exponent, exp_, product)
    ELSE NotEvaluated

\* Decimal::checked_pow.
checked_pow(d, exponent, exp_, product) ==
    IF is_zero(exponent) THEN Some(ONE)
    ELSE IF is_zero(d) THEN (IF exponent.negative THEN None ELSE Some(ZERO))
    ELSE IF eq(d, ONE) THEN Some(ONE)
    ELSE IF eq(exponent, ONE) THEN Some(d)
    ELSE LET n == normalize(exponent)
         IN  IF n.scale <= 0 THEN pow_decimal_integral(d, n, exp_, product)
             ELSE IF d.negative THEN None
             ELSE NotEvaluated

(***************************************************************************)
(* Square root.                                                            *)
(***************************************************************************)
ZERO_POINT_FIVE == from_raw_parts(<<5>>, 1, FALSE)

\* The end of the body of the loop of sqrt: result.checked_mul(&ZERO_POINT_FIVE)?
\* given sum = result.checked_add(&val)?.
sqrt_half(sum) ==
    IF sum.tag # "Some" THEN None ELSE checked_mul(sum.val, ZERO_POINT_FIVE)

\* Given val = self.checked_div(&result)? before it is normalized.
sqrt_sum(result, val) ==
    IF val.tag # "Some" THEN None
    ELSE sqrt_half(checked_add(result, normalize(val.val)))

\* sqrt_next with a fault: the quotient is taken as the new result, not its
\* mean with the old one.
sqrt_next_unaveraged(x, result) ==
    IF checked_div(x, result).tag # "Some" THEN None
    ELSE Some(normalize(checked_div(x, result).val))

\* The body of the loop of sqrt: the new result, or None.
sqrt_next(x, result) == sqrt_sum(result, checked_div(x, result))

(***************************************************************************)
(* Text: formatting (src/src/decimal.rs) and parsing (src/src/parse.rs).   *)
(* A string is the sequence of its bytes.                                  *)
(***************************************************************************)
\* The byte literal b'c'.
byte(ch) ==
    CASE ch = "0" -> 48 [] ch = "4" -> 52 [] ch = "9" -> 57
      [] ch = "+" -> 43 [] ch = "-" -> 45 [] ch = "." -> 46
      [] ch = "E" -> 69 [] ch = "e" -> 101 [] ch = " " -> 32
      [] ch = "N" -> 78 [] ch = "n" -> 110 [] ch = "A" -> 65 [] ch = "a" -> 97

\* The slices &s[..n] and &s[n..].
Take(s, n) == SubSeq(s, 1, n)
Skip(s, n) == SubSeq(s, n + 1, Len(s))

Reverse(s) == [i \in 1..Len(s) |-> s[Len(s) + 1 - i]]

\* s.iter().take_while(P).count()
take_while_count(s, P(_)) ==
    CHOOSE i \in 0..Len(s) :
        /\ \A j \in 1..i : P(s[j])
        /\ (i = Len(s) \/ ~P(s[i + 1]))

is_ascii_digit(c) == c >= byte("0") /\ c <= byte("9")
is_ascii_whitespace(c) == c \in {32, 9, 10, 12, 13}
is_zero_byte(c) == c = byte("0")
make_ascii_lowercase(c) == IF c >= 65 /\ c <= 90 THEN c + 32 ELSE c

\* write!(w, "{}", int_val): the decimal digits of a u128.
to_decimal_bytes(x) ==
    IF x = NatZero THEN <<byte("0")>>
    ELSE [i \in 1..NatDigits(x) |->
            LET p == NatDigits(x) - i
            IN  byte("0") + ((x[(p \div DigitsPerLimb) + 1]
                               \div SmallPow10(p % DigitsPerLimb)) % 10)]

\* The loops `int = int * 10 + (i - b'0') as u128` of parse_str over a slice
\* of digits.
from_decimal_bytes(ds) ==
    LET n == Len(ds)
        digit(p) == IF p < n THEN ds[n - p] - byte("0") ELSE 0
    IN  NatNorm([j \in 1..((n + DigitsPerLimb - 1) \div DigitsPerLimb) |->
                    digit(4 * (j - 1)) + 10 * digit(4 * (j - 1) + 1)
                    + 100 * digit(4 * (j - 1) + 2)
                    + 1000 * digit(4 * (j - 1) + 3)])

\* &ZERO_BUF[..n]
ZERO_BUF(n) == [i \in 1..n |-> byte("0")]

\* Option<usize>
SomeUsize(n) == [tag |-> "Some", val |-> n]
NoUsize == [tag |-> "None", val |-> 0]

\* Decimal::fmt_internal: the bytes written to w.
fmt_internal(d, append_sign, omit_integer_zero, omit_frac_ending_zero, precision_) ==
    IF is_zero(d) THEN <<byte("0")>>
    ELSE LET dec == IF precision_.tag = "Some"
                    THEN round(d, wrap_i16(precision_.val)) ELSE d
             scale == dec.scale
             digits == to_decimal_bytes(dec.int_val)
             len == Len(digits)
             frac_digits == Skip(digits, len - scale)
             after_len == Len(frac_digits)
         IN  (IF append_sign /\ d.negative THEN <<byte("-")>> ELSE << >>)
             \o
             (IF scale <= 0
              THEN digits \o ZERO_BUF(-scale)
                   \o (IF precision_.tag = "Some" /\ precision_.val # 0
                       THEN <<byte(".")>> \o ZERO_BUF(precision_.val) ELSE << >>)
              ELSE IF len <= scale
              THEN (IF ~omit_integer_zero THEN <<byte("0")>> ELSE << >>)
                   \o <<byte(".")>> \o ZERO_BUF(scale - len)
                   \o (IF omit_frac_ending_zero
                       THEN Take(digits, len - take_while_count(Reverse(digits),
                                                                is_zero_byte))
                       ELSE digits)
              ELSE Take(digits, len - scale)
                   \o (IF precision_.tag = "Some"
                       THEN <<byte(".")>>
                            \o (IF precision_.val > after_len
                                THEN frac_digits
                                     \o ZERO_BUF(precision_.val - after_len)
                                ELSE Take(frac_digits, precision_.val))
                       ELSE IF take_while_count(Reverse(frac_digits), is_zero_byte)
                                   < after_len
                       THEN <<byte(".")>>
                            \o Take(frac_digits,
                                    after_len - take_while_count(
                                        Reverse(frac_digits), is_zero_byte))
                       ELSE << >>))

\* Decimal::simply_format
simply_format(d) == fmt_internal(d, TRUE, TRUE, TRUE, NoUsize)

\* fmt::Display for Decimal with the precision of the formatter, no width and
\* no flags: pad_integral writes "-" when is_sign_positive() is false.
fmt(d, precision_) ==
    (IF d.negative THEN <<byte("-")>> ELSE << >>)
    \o fmt_internal(d, FALSE, FALSE, FALSE, precision_)

\* extract_sign
extract_sign(s) ==
    IF s # << >> /\ s[1] = byte("+") THEN [sign |-> "Positive", rest |-> Skip(s, 1)]
    ELSE IF s # << >> /\ s[1] = byte("-")
    THEN [sign |-> "Negative", rest |-> Skip(s, 1)]
    ELSE [sign |-> "Positive", rest |-> s]

\* eat_digits: <<the digits, the rest>>
eat_digits(s) ==
    <<Take(s, take_while_count(s, is_ascii_digit)),
      Skip(s, take_while_count(s, is_ascii_digit))>>

\* The loop `result = result * 10 + (n - b'0') as i16` of extract_exponent
\* over at most three digits.
RECURSIVE exponent_digits(_)
exponent_digits(number) ==
    IF number = << >> THEN 0
    ELSE exponent_digits(Take(number, Len(number) - 1)) * 10
         + (number[Len(number)] - byte("0"))

ExponentOk(exp_, s) == [tag |-> "Ok", err |-> "", exp |-> exp_, rest |-> s]
ExponentErr(e) == [tag |-> "Err", err |-> e, exp |-> 0, rest |-> << >>]

\* extract_exponent
extract_exponent(s) ==
    LET sign == extract_sign(s).sign
        eaten == eat_digits(extract_sign(s).rest)
        number == Skip(eaten[1], take_while_count(eaten[1], is_zero_byte))
    IN  IF eaten[1] = << >> THEN ExponentErr("Invalid")
        ELSE IF Len(number) > 3
        THEN (IF sign = "Positive" THEN ExponentErr("Overflow")
              ELSE ExponentErr("Underflow"))
        ELSE ExponentOk(IF sign = "Positive" THEN exponent_digits(number)
                        ELSE -exponent_digits(number), eaten[2])

Parts(sign, integral, fractional, exp_) ==
    [sign |-> sign, integral |-> integral, fractional |-> fractional, exp |-> exp_]

PartsOk(parts, s) == [tag |-> "Ok", err |-> "", parts |-> parts, rest |-> s]
PartsErr(e) ==
    [tag |-> "Err", err |-> e, parts |-> Parts("Positive", << >>, << >>, 0),
     rest |-> << >>]

\* The arms of the match of parse_decimal, given the exponent that was
\* extracted.
parse_decimal_exponent(sign, integral, fractional, exponent) ==
    IF exponent.tag = "Err" THEN PartsErr(exponent.err)
    ELSE PartsOk(Parts(sign, integral, fractional, exponent.exp), exponent.rest)

\* The arm Some(&b'.') of parse_decimal.
parse_decimal_point(sign, integral, eaten) ==
    LET fractional ==
            Take(eaten[1], Len(eaten[1])
                           - take_while_count(Reverse(eaten[1]), is_zero_byte))
        s == eaten[2]
    IN  IF integral = << >> /\ eaten[1] = << >> THEN PartsErr("Invalid")
        ELSE IF s # << >> /\ s[1] \in {byte("e"), byte("E")}
        THEN parse_decimal_exponent(sign, integral, fractional,
                                    extract_exponent(Skip(s, 1)))
        ELSE PartsOk(Parts(sign, integral, fractional, 0), s)

\* parse_decimal
parse_decimal(s0) ==
    LET sign == extract_sign(s0).sign
        eaten == eat_digits(extract_sign(s0).rest)
        zeros == take_while_count(eaten[1], is_zero_byte)
        integral == Skip(eaten[1], Max(0, Min(zeros, Len(eaten[1]) - 1)))
        s == eaten[2]
    IN  IF extract_sign(s0).rest = << >> THEN PartsErr("Invalid")
        ELSE IF s # << >> /\ s[1] \in {byte("e"), byte("E")}
        THEN (IF integral = << >> THEN PartsErr("Invalid")
              ELSE parse_decimal_exponent(sign, integral, << >>,
                                          extract_exponent(Skip(s, 1))))
        ELSE IF s # << >> /\ s[1] = byte(".")
        THEN parse_decimal_point(sign, integral, eat_digits(Skip(s, 1)))
        ELSE IF integral = << >> THEN PartsErr("Invalid")
        ELSE PartsOk(Parts(sign, integral, << >>, 0), s)

\* eat_whitespaces
eat_whitespaces(s) == Skip(s, take_while_count(s, is_ascii_whitespace))

\* extract_nan: <<is_nan, the rest>>
extract_nan(s) ==
    IF Len(s) < 3 THEN <<FALSE, s>>
    ELSE IF [i \in 1..3 |-> make_ascii_lowercase(s[i])] = <<byte("n"), byte("a"), byte("n")>>
    THEN <<TRUE, Skip(s, 3)>>
    ELSE <<FALSE, s>>

ParseOk(d, s) == [tag |-> "Ok", err |-> "", val |-> d, rest |-> s]
ParseErr(e) == [tag |-> "Err", err |-> e, val |-> ZERO, rest |-> << >>]

\* parse_str from `let mut int = 0u128` on, given the digits kept, whether
\* the first digit dropped rounds up, and the scale and the normalized
\* exponent so far.
parse_str_int(sign, integral, fractional, carry, scale, normalized_exp, s) ==
    LET int0 == NatAdd(from_decimal_bytes(integral \o fractional),
                       IF carry THEN <<1>> ELSE NatZero)
        over == NatLt(MAX_I128_REPR, int0)
        int == IF over THEN NatDivModSmall(int0, 10)[1] ELSE int0
        normalized_exp1 == IF over THEN normalized_exp + 1 ELSE normalized_exp
        scale1 == IF over THEN scale - 1 ELSE scale
    IN  IF normalized_exp1 <= -MAX_SCALE THEN ParseErr("Underflow")
        ELSE IF normalized_exp1 > -MIN_SCALE THEN ParseErr("Overflow")
        ELSE ParseOk(from_parts_unchecked(int, scale1 + Len(fractional),
                                          int # NatZero /\ sign = "Negative"), s)

\* parse_str from the Parts that parse_decimal returned.
parse_str_parts(parts, s) ==
    LET integral == parts.integral
        fractional == parts.fractional
        exp_ == parts.exp
        zero_count == take_while_count(fractional, is_zero_byte)
        int_len == Len(integral)
    IN  IF integral = <<byte("0")>>
        THEN \* fractional only
             IF Len(fractional) > MAX_PRECISION + zero_count
             THEN parse_str_int(parts.sign, integral,
                                Take(fractional, MAX_PRECISION + zero_count),
                                fractional[MAX_PRECISION + zero_count + 1] > byte("4"),
                                -exp_, exp_ - zero_count, s)
             ELSE parse_str_int(parts.sign, integral, fractional, FALSE,
                                -exp_, exp_ - zero_count, s)
        ELSE IF int_len > MAX_PRECISION
        THEN parse_str_int(parts.sign, Take(integral, MAX_PRECISION), << >>,
                           integral[MAX_PRECISION + 1] > byte("4"),
                           -exp_ - (int_len - MAX_PRECISION), exp_ + int_len, s)
        ELSE IF Len(fractional) > MAX_PRECISION - int_len
        THEN parse_str_int(parts.sign, integral,
                           Take(fractional, MAX_PRECISION - int_len),
                           fractional[MAX_PRECISION - int_len + 1] > byte("4"),
                           -exp_, exp_ + int_len, s)
        ELSE parse_str_int(parts.sign, integral, fractional, FALSE,
                           -exp_, exp_ + int_len, s)

\* parse_str
parse_str(s) ==
    IF parse_decimal(s).tag = "Err" THEN ParseErr(parse_decimal(s).err)
    ELSE parse_str_parts(parse_decimal(s).parts, parse_decimal(s).rest)

\* The rest of from_str once parse_str has returned.
from_str_rest(parsed) ==
    IF parsed.tag = "Err" THEN parsed
    ELSE IF \E i \in 1..Len(parsed.rest) : ~is_ascii_whitespace(parsed.rest[i])
    THEN ParseErr("Invalid")
    ELSE ParseOk(parsed.val, << >>)

\* from_str (FromStr for Decimal)
from_str(s0) ==
    LET s == eat_whitespaces(s0)
    IN  IF s = << >> THEN ParseErr("Empty")
        ELSE IF extract_nan(s)[1] THEN ParseErr("Invalid")
        ELSE from_str_rest(parse_str(extract_nan(s)[2]))

(***************************************************************************)
(* Conversion from f32 and f64 (src/src/convert.rs).  base2_to_decimal is  *)
(* modelled one turn of a loop at a time: conv holds its locals and the    *)
(* loop it is in.                                                          *)
(***************************************************************************)
F32_DP == NatSub(NatPow10(9), <<1>>)
F64_DP == NatSub(NatPow10(17), <<1>>)

\* u128::checked_mul: the product, or None.
u128_checked_mul(x, m) ==
    IF NatLt(NatMulSmall(x, m), NatPow2(N_UDWORD_BITS))
    THEN [tag |-> "Some", val |-> NatMulSmall(x, m)]
    ELSE [tag |-> "None", val |-> NatZero]

\* bits & 0x1 == 0
is_even(bits) == NatToSmall(NatDivModSmall(bits, 2)[2]) = 0

\* bits & 0x8000_0000_0000_0000_0000_0000_0000_0000 == 0
far_left_bit_clear(bits) == NatLt(bits, NatPow2(N_UDWORD_BITS - 1))

\* Result<Decimal, DecimalConvertError>
ConvertOk(d) == [tag |-> "Ok", err |-> "", val |-> d]
ConvertErr(e) == [tag |-> "Err", err |-> e, val |-> ZERO]

\* No conversion is under way.
NoConv ==
    [pc |-> "idle", is_f64 |-> FALSE, negative |-> FALSE, bits_arg |-> NatZero,
     exponent2 |-> 0, bits |-> NatZero, exponent5 |-> 0, exponent10 |-> 0,
     rem10 |-> 0]

\* base2_to_decimal::<IS_F64>(bits, exponent2, negative) before its first loop.
base2_to_decimal(is_f64, bits, exponent2, negative) ==
    [pc |-> "exponent5_down", is_f64 |-> is_f64, negative |-> negative,
     bits_arg |-> bits, exponent2 |-> exponent2, bits |-> bits,
     exponent5 |-> -exponent2, exponent10 |-> exponent2, rem10 |-> 0]

\* One turn of `while exponent5 > 0`.
exponent5_down(c) ==
    IF ~(c.exponent5 > 0) THEN [c EXCEPT !.pc = "exponent5_up"]
    ELSE IF is_even(c.bits)
    THEN [c EXCEPT !.exponent10 = @ + 1, !.exponent5 = @ - 1,
                   !.bits = NatDivModSmall(c.bits, 2)[1]]
    ELSE IF u128_checked_mul(c.bits, 5).tag = "Some"
    THEN [c EXCEPT !.exponent5 = @ - 1, !.bits = u128_checked_mul(c.bits, 5).val]
    ELSE [c EXCEPT !.exponent5 = @ - 1, !.exponent10 = @ + 1,
                   !.bits = NatDivModSmall(c.bits, 2)[1]]

\* One turn of `while exponent5 < 0`.
exponent5_up(c) ==
    IF ~(c.exponent5 < 0) THEN [c EXCEPT !.pc = "exponent10_down"]
    ELSE IF far_left_bit_clear(c.bits)
    THEN [c EXCEPT !.exponent10 = @ - 1, !.exponent5 = @ + 1,
                   !.bits = NatMulSmall(c.bits, 2)]
    ELSE [c EXCEPT !.exponent5 = @ + 1, !.bits = NatDivModSmall(c.bits, 5)[1]]

\* One turn of `while exponent10 > 0`: the product is compared and dropped,
\* bits is not assigned.
exponent10_down(c) ==
    IF ~(c.exponent10 > 0) THEN [c EXCEPT !.pc = "exponent10_up"]
    ELSE IF u128_checked_mul(c.bits, 10).tag = "None"
    THEN [c EXCEPT !.pc = "none"]
    ELSE IF NatLt(MAX_I128_REPR, u128_checked_mul(c.bits, 10).val)
    THEN [c EXCEPT !.exponent10 = @ - 1]
    ELSE c

\* One turn of `while exponent10 < -(MAX_PRECISION as i32)`.
exponent10_up(c) ==
    IF ~(c.exponent10 < -MAX_PRECISION) THEN [c EXCEPT !.pc = "precision"]
    ELSE IF NatDivModSmall(c.bits, 10)[1] = NatZero
    THEN [c EXCEPT !.bits = NatZero, !.exponent10 = 0]
    ELSE IF NatToSmall(NatDivModSmall(c.bits, 10)[2]) >= 5
    THEN [c EXCEPT !.bits = NatAdd(NatDivModSmall(c.bits, 10)[1], <<1>>),
                   !.exponent10 = @ + 1]
    ELSE [c EXCEPT !.bits = NatDivModSmall(c.bits, 10)[1], !.exponent10 = @ + 1]

\* One turn of `while exponent10 < 0 && bits > F64_DP` (F32_DP for f32), and
\* after the loop `if rem10 >= 5 { bits += 1 }`.
drop_precision(c) ==
    IF c.exponent10 < 0 /\ NatLt(IF c.is_f64 THEN F64_DP ELSE F32_DP, c.bits)
    THEN [c EXCEPT !.rem10 = NatToSmall(NatDivModSmall(c.bits, 10)[2]),
                   !.bits = NatDivModSmall(c.bits, 10)[1],
                   !.exponent10 = @ + 1]
    ELSE [c EXCEPT !.pc = "tens",
                   !.bits = IF c.rem10 >= 5 THEN NatAdd(c.bits, <<1>>) ELSE c.bits]

\* One turn of the last loop, which removes multiples of 10.
remove_tens(c) ==
    IF c.exponent10 < 0 /\ NatToSmall(NatDivModSmall(c.bits, 10)[2]) = 0
    THEN [c EXCEPT !.exponent10 = @ + 1, !.bits = NatDivModSmall(c.bits, 10)[1]]
    ELSE [c EXCEPT !.pc = "some"]

\* What try_from makes of what base2_to_decimal returns.
try_from_result(c) ==
    IF c.pc = "some"
    THEN ConvertOk(from_parts_unchecked(c.bits, -c.exponent10, c.negative))
    ELSE ConvertErr("Overflow")

Return(res) == [tag |-> "Return", res |-> res, call |-> NoConv]
Call(c) == [tag |-> "Call", res |-> ConvertOk(ZERO), call |-> c]

\* TryFrom<f64>::try_from up to its call of base2_to_decimal, for the f64
\* with the given sign, biased exponent (11 bits) and mantissa (52 bits).
f64_try_from(negative, biased_exponent, mantissa) ==
    IF biased_exponent = 2047 /\ mantissa = NatZero
    THEN Return(ConvertErr("Overflow"))
    ELSE IF biased_exponent = 2047
    THEN Return(ConvertErr("Invalid"))
    ELSE IF biased_exponent = 0 /\ mantissa = NatZero
    THEN Return(ConvertOk(ZERO))
    ELSE IF biased_exponent = 0
    THEN Call(base2_to_decimal(TRUE, mantissa, 0 - 1023 + 1 - 52, negative))
    ELSE Call(base2_to_decimal(TRUE, NatAdd(mantissa, NatPow2(52)),
                               biased_exponent - 1023 - 52, negative))

\* TryFrom<f32>::try_from likewise: 8 bits of exponent, 23 of mantissa.
f32_try_from(negative, biased_exponent, mantissa) ==
    IF biased_exponent = 255 /\ mantissa = NatZero
    THEN Return(ConvertErr("Overflow"))
    ELSE IF biased_exponent = 255
    THEN Return(ConvertErr("Invalid"))
    ELSE IF biased_exponent = 0 /\ mantissa = NatZero
    THEN Return(ConvertOk(ZERO))
    ELSE IF biased_exponent = 0
    THEN Call(base2_to_decimal(FALSE, mantissa, 0 - 127 + 1 - 23, negative))
    ELSE Call(base2_to_decimal(FALSE, NatAdd(mantissa, NatPow2(23)),
                               biased_exponent - 127 - 23, negative))

(***************************************************************************)
(* The state: two operands, the operation applied to them, its arguments   *)
(* and what it returned.                                                   *)
(***************************************************************************)
VARIABLES
    a,       \* the receiver (self)
    b,       \* the other operand
    op,      \* the last operation applied ("init": none yet)
    k,       \* its scale argument (i16)
    prec,    \* its precision argument (u8)
    r,       \* what the operation returned
    r2,      \* what the operation applied to that result returned, or an
             \* intermediate result of the operation
    flag,    \* a returned bool (round_with_precision, eq)
    bytes,   \* the bytes an encoder wrote
    size,    \* the size an encoder returned
    ord,     \* a returned Ordering: -1, 0, 1
    room,    \* the bytes the writer still has room for
    third,   \* a third operand
    split,   \* the range reduction of the last exp: a, b and the table entry
    seen,    \* the values last has had in the loop of sqrt
    conv     \* the locals of base2_to_decimal and the place it has reached

vars == <<a, b, op, k, prec, r, r2, flag, bytes, size, ord, room, third, split, seen, conv>>

\* The Decimals from_parts accepts, out of the given parts.
Decimals(ints, scales) ==
    {from_parts(m, e, s).val : m \in ints, e \in scales, s \in BOOLEAN}

\* The state after the operands are constructed.
InitWith(as, bs, rooms) ==
    /\ a \in as
    /\ b \in bs
    /\ room \in rooms
    /\ op = "init"
    /\ k = 0
    /\ prec = 0
    /\ r = None
    /\ r2 = None
    /\ flag = FALSE
    /\ bytes = << >>
    /\ size = 0
    /\ ord = 0
    /\ third = ZERO
    /\ split = NoSplit
    /\ seen = {}
    /\ conv = NoConv

Add ==
    /\ op = "init"
    /\ op' = "checked_add"
    /\ r' = checked_add(a, b)
    /\ UNCHANGED <<a, b, k, prec, r2, flag, bytes, size, ord, room, third, split, seen, conv>>

Sub ==
    /\ op = "init"
    /\ op' = "checked_sub"
    /\ r' = checked_sub(a, b)
    /\ UNCHANGED <<a, b, k, prec, r2, flag, bytes, size, ord, room, third, split, seen, conv>>

Mul ==
    /\ op = "init"
    /\ op' = "checked_mul"
    /\ r' = checked_mul(a, b)
    /\ UNCHANGED <<a, b, k, prec, r2, flag, bytes, size, ord, room, third, split, seen, conv>>

Div ==
    /\ op = "init"
    /\ op' = "checked_div"
    /\ r' = checked_div(a, b)
    /\ UNCHANGED <<a, b, k, prec, r2, flag, bytes, size, ord, room, third, split, seen, conv>>

Rem ==
    /\ op = "init"
    /\ op' = "checked_rem"
    /\ r' = checked_rem(a, b)
    /\ UNCHANGED <<a, b, k, prec, r2, flag, bytes, size, ord, room, third, split, seen, conv>>

\* (a + b) - b: the subtraction applied to a sum that was returned.
SubBack ==
    /\ op = "checked_add"
    /\ r.tag = "Some"
    /\ op' = "add_sub"
    /\ r2' = checked_sub(r.val, b)
    /\ UNCHANGED <<a, b, k, prec, r, flag, bytes, size, ord, room, third, split, seen, conv>>

\* (a * b) / b: the division applied to a product that was returned.
DivBack ==
    /\ op = "checked_mul"
    /\ r.tag = "Some"
    /\ op' = "mul_div"
    /\ r2' = checked_div(r.val, b)
    /\ UNCHANGED <<a, b, k, prec, r, flag, bytes, size, ord, room, third, split, seen, conv>>

\* The operations on one Decimal: a is self.
Ceil ==
    /\ op = "init"
    /\ op' = "ceil"
    /\ r' = Some(ceil(a))
    /\ UNCHANGED <<a, b, k, prec, r2, flag, bytes, size, ord, room, third, split, seen, conv>>

Floor ==
    /\ op = "init"
    /\ op' = "floor"
    /\ r' = Some(floor(a))
    /\ UNCHANGED <<a, b, k, prec, r2, flag, bytes, size, ord, room, third, split, seen, conv>>

Abs ==
    /\ op = "init"
    /\ op' = "abs"
    /\ r' = Some(abs(a))
    /\ UNCHANGED <<a, b, k, prec, r2, flag, bytes, size, ord, room, third, split, seen, conv>>

Neg ==
    /\ op = "init"
    /\ op' = "neg"
    /\ r' = Some(neg(a))
    /\ UNCHANGED <<a, b, k, prec, r2, flag, bytes, size, ord, room, third, split, seen, conv>>

Normalize ==
    /\ op = "init"
    /\ op' = "normalize"
    /\ r' = Some(normalize(a))
    /\ UNCHANGED <<a, b, k, prec, r2, flag, bytes, size, ord, room, third, split, seen, conv>>

Trunc(scale) ==
    /\ op = "init"
    /\ op' = "trunc"
    /\ k' = scale
    /\ r' = Some(trunc(a, scale))
    /\ UNCHANGED <<a, b, prec, r2, flag, bytes, size, ord, room, third, split, seen, conv>>

Round(scale) ==
    /\ op = "init"
    /\ op' = "round"
    /\ k' = scale
    /\ r' = Some(round(a, scale))
    /\ UNCHANGED <<a, b, prec, r2, flag, bytes, size, ord, room, third, split, seen, conv>>

NormalizeToScale(scale) ==
    /\ op = "init"
    /\ op' = "normalize_to_scale"
    /\ k' = scale
    /\ r' = Some(normalize_to_scale(a, scale))
    /\ UNCHANGED <<a, b, prec, r2, flag, bytes, size, ord, room, third, split, seen, conv>>

\* round_with_precision changes self in place and returns the overflow flag:
\* r is self after the call.
RoundWithPrecision(precision_, scale) ==
    /\ op = "init"
    /\ op' = "round_with_precision"
    /\ prec' = precision_
    /\ k' = scale
    /\ \E overflow_checks \in BOOLEAN :
           LET res == round_with_precision(a, precision_, scale, overflow_checks)
           IN  /\ flag' = res.overflow
               /\ r' = [tag |-> res.tag, val |-> res.val]
    /\ UNCHANGED <<a, b, r2, bytes, size, ord, room, third, split, seen, conv>>

\* The encoders write a into the writer, in a build with or without debug
\* assertions.
Encode ==
    /\ op = "init"
    /\ op' = "encode"
    /\ \E debug_assertions \in BOOLEAN :
           LET w == encode(a, room, debug_assertions)
           IN  /\ r' = [tag |-> w.tag, val |-> ZERO]
               /\ bytes' = w.bytes
               /\ size' = w.size
               /\ room' = room - Len(w.bytes)
    /\ UNCHANGED <<a, b, k, prec, r2, flag, ord, third, split, seen, conv>>

CompactEncode ==
    /\ op = "init"
    /\ op' = "compact_encode"
    /\ \E debug_assertions \in BOOLEAN :
           LET w == compact_encode(a, room, debug_assertions)
           IN  /\ r' = [tag |-> w.tag, val |-> ZERO]
               /\ bytes' = w.bytes
               /\ size' = w.size
               /\ room' = room - Len(w.bytes)
    /\ UNCHANGED <<a, b, k, prec, r2, flag, ord, third, split, seen, conv>>

\* Decimal::decode of the bytes an encoder wrote before it returned Ok; decode
\* asserts that there is at least one byte.
Decode ==
    /\ op \in {"encode", "compact_encode"}
    /\ r.tag = "Ok"
    /\ op' = "decode"
    /\ r2' = IF Len(bytes) > 0 THEN Some(decode(bytes)) ELSE Panic
    /\ UNCHANGED <<a, b, k, prec, r, flag, bytes, size, ord, room, third, split, seen, conv>>

\* a.cmp(&b)
Cmp ==
    /\ op = "init"
    /\ op' = "cmp"
    /\ ord' = cmp(a, b)
    /\ UNCHANGED <<a, b, k, prec, r, r2, flag, bytes, size, room, third, split, seen, conv>>

\* a == b
Eq ==
    /\ op = "init"
    /\ op' = "eq"
    /\ flag' = eq(a, b)
    /\ UNCHANGED <<a, b, k, prec, r, r2, bytes, size, ord, room, third, split, seen, conv>>

\* Hashing a and b after they were compared: r and r2 are the normalized
\* Decimals whose fields are fed to the hasher.
Hash ==
    /\ op = "eq"
    /\ op' = "eq_hash"
    /\ r' = Some(normalize(a))
    /\ r2' = Some(normalize(b))
    /\ UNCHANGED <<a, b, k, prec, flag, bytes, size, ord, room, third, split, seen, conv>>

\* (a + b) + third and a + (b + third) with checked_add, None as soon as one
\* sum is, in two steps.  The first step is the first call of each: r is
\* a + b, r2 is b + third.  The second step is the second call of each: r
\* becomes (a + b) + third, r2 becomes a + (b + third).
AddTwice ==
    /\ op \in {"init", "add_inner"}
    /\ op' = IF op = "init" THEN "add_inner" ELSE "add_three"
    /\ r' = IF op = "add_inner" /\ r.tag # "Some" THEN r
            ELSE checked_add(IF op = "init" THEN a ELSE r.val,
                             IF op = "init" THEN b ELSE third)
    /\ r2' = IF op = "add_inner" /\ r2.tag # "Some" THEN r2
             ELSE checked_add(IF op = "init" THEN b ELSE a,
                              IF op = "init" THEN third ELSE r2.val)
    /\ UNCHANGED <<a, b, k, prec, flag, bytes, size, ord, room, third, split, seen, conv>>

\* Decimal::from_parts(a.int_val, a.scale, a.negative): here a holds the
\* three arguments, any u128, i16 and bool.
FromParts ==
    /\ op = "init"
    /\ op' = "from_parts"
    /\ r' = from_parts(a.int_val, a.scale, a.negative)
    /\ UNCHANGED <<a, b, k, prec, r2, flag, bytes, size, ord, room, third, split, seen, conv>>

\* sqrt up to its loop: the two early returns, or result = last = ONE.
SqrtBegin ==
    /\ op = "init"
    /\ op' = IF a.negative \/ is_zero(a) THEN "sqrt" ELSE "sqrt_loop"
    /\ r' = IF a.negative THEN None ELSE IF is_zero(a) THEN Some(ZERO) ELSE Some(ONE)
    /\ r2' = r'
    /\ seen' = IF a.negative \/ is_zero(a) THEN {} ELSE {ONE}
    /\ UNCHANGED <<a, b, k, prec, flag, bytes, size, ord, room, third, split, conv>>

\* One turn of the loop of sqrt.  At the head of the loop result and last
\* are equal: they are r.  r2 is the result the body computes; the loop is
\* left when it is None or equal to last, and otherwise last becomes it.
\* flag tells that last has a value it had in an earlier turn.
SqrtLoop ==
    /\ op = "sqrt_loop"
    /\ r2' = sqrt_next(a, r.val)
    /\ r' = r2'
    /\ op' = IF r2'.tag = "Some" /\ ~eq(r2'.val, r.val) THEN "sqrt_loop" ELSE "sqrt"
    /\ flag' = (op' = "sqrt_loop" /\ r2'.val \in seen)
    /\ seen' = IF op' = "sqrt_loop" THEN seen \cup {r2'.val} ELSE seen
    /\ UNCHANGED <<a, b, k, prec, bytes, size, ord, room, third, split, conv>>

\* What the product of exp comes to.
ExpProducts ==
    {None, Some(ONE), Some(from_raw_parts(NatOf(7016), 0, FALSE)),
     Some(from_raw_parts(NatOf(3775), 7, FALSE))}


\* What the reduction and the series of ln come to for the bases of PowBases.
LnSeries ==
    {
     <<from_raw_parts(<<2>>, -1, FALSE),
       from_raw_parts(<<7757, 2540, 7614, 2235, 3435, 9099, 5539, 2273, 9573, 29>>,
                      37, FALSE)>>,
     <<from_raw_parts(<<2>>, 0, FALSE),
       from_raw_parts(<<5681, 8176, 2145, 2321, 9417, 4530, 5599, 7180, 9314, 6>>,
                      37, FALSE)>>,
     <<from_raw_parts(<<2>>, 4, FALSE),
       from_raw_parts(<<2623, 9280, 9727, 7336, 6654, 3742, 4162, 3191, 1719, 85>>,
                      37, TRUE)>>,
     <<from_raw_parts(<<3>>, -1, FALSE),
       from_raw_parts(<<9123, 6889, 9160, 2366, 5413, 5537, 6621, 7381, 119, 34>>,
                      37, FALSE)>>,
     <<from_raw_parts(<<3>>, 0, FALSE),
       from_raw_parts(<<7047, 2525, 3692, 2452, 1395, 969, 6681, 2288, 9861, 10>>,
                      37, FALSE)>>,
     <<from_raw_parts(<<3>>, 4, FALSE),
       from_raw_parts(<<1257, 4931, 8181, 7205, 4676, 7304, 3080, 8083, 1172, 81>>,
                      37, TRUE)>>,
     <<from_raw_parts(<<1, 1>>, -1, FALSE),
       from_raw_parts(<<2169, 277, 4401, 5290, 2842, 5617, 9970, 2545, 5130, 11>>,
                      36, FALSE)>>,
     <<from_raw_parts(<<1, 1>>, 0, FALSE),
       from_raw_parts(<<9615, 8407, 8541, 2989, 4407, 1604, 9765, 366, 1044, 92>>,
                      37, FALSE)>>,
     <<from_raw_parts(<<1, 1>>, 4, FALSE),
       from_raw_parts(<<3480, 3106, 9511, 6680, 3316, 3353, 3308, 33, 9950, 99>>,
                      42, FALSE)>>,
     <<from_raw_parts(<<9999>>, -1, FALSE),
       from_raw_parts(<<4074, 753, 7734, 4623, 6175, 8950, 9969, 2545, 5128, 11>>,
                      36, FALSE)>>,
     <<from_raw_parts(<<9999>>, 0, FALSE),
       from_raw_parts(<<8660, 3169, 1872, 6323, 7736, 4937, 9758, 366, 1024, 92>>,
                      37, FALSE)>>,
     <<from_raw_parts(<<9999>>, 4, FALSE),
       from_raw_parts(<<9683, 9643, 4286, 1, 3335, 8335, 3335, 3, 5, 10>>,
                      41, TRUE)>>,
     <<from_raw_parts(<<1>>, -1, FALSE),
       from_raw_parts(<<2076, 4364, 5468, 9914, 4017, 4568, 9940, 5092, 258, 23>>,
                      37, FALSE)>>,
     <<from_raw_parts(<<1>>, 4, FALSE),
       from_raw_parts(<<8304, 7456, 1873, 9658, 6071, 8273, 9761, 371, 1034, 92>>,
                      37, TRUE)>>
    }

ln_series(x) ==
    IF \E p \in LnSeries : p[1] = x
    THEN Some((CHOOSE p \in LnSeries : p[1] = x)[2])
    ELSE None

Exp ==
    /\ op = "init"
    /\ op' = "exp"
    /\ \E product \in ExpProducts : r' = exp(a, product)
    /\ split' = IF exp_returns_early(a) THEN NoSplit ELSE exp_split(a)
    /\ UNCHANGED <<a, b, k, prec, r2, flag, bytes, size, ord, room, third, seen, conv>>

\* checked_pow where it does not take a branch that is not evaluated.  r2 is
\* the argument pow_decimal has for exp.
CheckedPow ==
    /\ op = "init"
    /\ r2' = pow_decimal_exp(a, normalize(b), ln_series(abs(a)))
    /\ \E product \in ExpProducts : r' = checked_pow(a, b, r2', product)
    /\ r' # NotEvaluated
    /\ op' = "checked_pow"
    /\ UNCHANGED <<a, b, k, prec, flag, bytes, size, ord, room, third, split, seen, conv>>

\* The precisions of a formatter: format!("{}", a), format!("{:.0}", a) and
\* format!("{:.2}", a).
FormatterPrecisions == {NoUsize, SomeUsize(0), SomeUsize(2)}

\* a.to_string() and format!("{:.p}", a)
Display ==
    /\ op = "init"
    /\ \E precision_ \in FormatterPrecisions :
          /\ bytes' = fmt(a, precision_)
          /\ prec' = precision_.val
          /\ op' = IF precision_.tag = "None" THEN "display" ELSE "display_precision"
    /\ UNCHANGED <<a, b, k, r, r2, flag, size, ord, room, third, split, seen, conv>>

\* a.simply_format(&mut bytes)
SimplyFormat ==
    /\ op = "init"
    /\ bytes' = simply_format(a)
    /\ op' = "simply_format"
    /\ UNCHANGED <<a, b, k, prec, r, r2, flag, size, ord, room, third, split, seen, conv>>

\* bytes.parse::<Decimal>() of the text that was written
Parse ==
    /\ op \in {"display", "display_precision", "simply_format"}
    /\ r' = from_str(bytes)
    /\ op' = CASE op = "display" -> "parse_display"
               [] op = "display_precision" -> "parse_display_precision"
               [] op = "simply_format" -> "parse_simply_format"
    /\ UNCHANGED <<a, b, k, prec, r2, flag, bytes, size, ord, room, third, split, seen, conv>>

\* The text s with the digit 0 written before its point.
WithIntegerZero(s) ==
    LET i == take_while_count(s, LAMBDA c : c # byte("."))
    IN  Take(s, i) \o <<byte("0")>> \o Skip(s, i)

\* bytes.parse::<Decimal>() of a text
FromStrOmitted ==
    /\ op = "init"
    /\ r' = from_str(bytes)
    /\ op' = "from_str_omitted"
    /\ UNCHANGED <<a, b, k, prec, r2, flag, bytes, size, ord, room, third, split, seen, conv>>

\* ... and of the same text with the digit 0 before its point
FromStrLeading ==
    /\ op = "from_str_omitted"
    /\ bytes' = WithIntegerZero(bytes)
    /\ r2' = from_str(bytes')
    /\ op' = "from_str_leading"
    /\ UNCHANGED <<a, b, k, prec, r, flag, size, ord, room, third, split, seen, conv>>

\* a.div_rem(b) of two U256
DivRem ==
    /\ op = "init"
    /\ r' = U256_div_rem(a, b)
    /\ op' = "div_rem"
    /\ UNCHANGED <<a, b, k, prec, r2, flag, bytes, size, ord, room, third, split, seen, conv>>

\* An operation applied to two pairs of operands of the same values, one pair
\* after the other: third is another representation of a, and flag tells that
\* a is the right operand.  The pairs are (a, b) and then (third, b), or
\* (b, a) and then (b, third).
Lhs(other) == IF flag THEN b ELSE IF other THEN third ELSE a
Rhs(other) == IF flag THEN (IF other THEN third ELSE a) ELSE b

\* The result of the first application is kept in r, of the second in r2.
KeepResult(other, res) ==
    /\ r' = IF other THEN r ELSE res
    /\ r2' = IF other THEN res ELSE r2

AddBoth ==
    \E other \in BOOLEAN :
        /\ op = IF other THEN "checked_add" ELSE "init"
        /\ op' = IF other THEN "checked_add_other" ELSE "checked_add"
        /\ KeepResult(other, checked_add(Lhs(other), Rhs(other)))
        /\ UNCHANGED <<a, b, k, prec, flag, bytes, size, ord, room, third, split, seen, conv>>

SubBoth ==
    \E other \in BOOLEAN :
        /\ op = IF other THEN "checked_sub" ELSE "init"
        /\ op' = IF other THEN "checked_sub_other" ELSE "checked_sub"
        /\ KeepResult(other, checked_sub(Lhs(other), Rhs(other)))
        /\ UNCHANGED <<a, b, k, prec, flag, bytes, size, ord, room, third, split, seen, conv>>

MulBoth ==
    \E other \in BOOLEAN :
        /\ op = IF other THEN "checked_mul" ELSE "init"
        /\ op' = IF other THEN "checked_mul_other" ELSE "checked_mul"
        /\ KeepResult(other, checked_mul(Lhs(other), Rhs(other)))
        /\ UNCHANGED <<a, b, k, prec, flag, bytes, size, ord, room, third, split, seen, conv>>

DivBoth ==
    \E other \in BOOLEAN :
        /\ op = IF other THEN "checked_div" ELSE "init"
        /\ op' = IF other THEN "checked_div_other" ELSE "checked_div"
        /\ KeepResult(other, checked_div(Lhs(other), Rhs(other)))
        /\ UNCHANGED <<a, b, k, prec, flag, bytes, size, ord, room, third, split, seen, conv>>

RemBoth ==
    \E other \in BOOLEAN :
        /\ op = IF other THEN "checked_rem" ELSE "init"
        /\ op' = IF other THEN "checked_rem_other" ELSE "checked_rem"
        /\ KeepResult(other, checked_rem(Lhs(other), Rhs(other)))
        /\ UNCHANGED <<a, b, k, prec, flag, bytes, size, ord, room, third, split, seen, conv>>

\* try_from has returned, or has called base2_to_decimal.
Begin(t) ==
    /\ r' = IF t.tag = "Return" THEN t.res ELSE r
    /\ conv' = IF t.tag = "Return" THEN [NoConv EXCEPT !.pc = "done"] ELSE t.call

TryFromF64(float) ==
    /\ op = "init"
    /\ op' = "try_from_f64"
    /\ Begin(f64_try_from(float.negative, float.biased_exponent, float.mantissa))
    /\ UNCHANGED <<a, b, k, prec, r2, flag, bytes, size, ord, room, third, split, seen>>

TryFromF32(float) ==
    /\ op = "init"
    /\ op' = "try_from_f32"
    /\ Begin(f32_try_from(float.negative, float.biased_exponent, float.mantissa))
    /\ UNCHANGED <<a, b, k, prec, r2, flag, bytes, size, ord, room, third, split, seen>>

\* The loops of base2_to_decimal, a turn or the exit of a loop at a time.
Exponent5Down ==
    /\ conv.pc = "exponent5_down"
    /\ conv' = exponent5_down(conv)
    /\ UNCHANGED <<a, b, op, k, prec, r, r2, flag, bytes, size, ord, room, third, split, seen>>

Exponent5Up ==
    /\ conv.pc = "exponent5_up"
    /\ conv' = exponent5_up(conv)
    /\ UNCHANGED <<a, b, op, k, prec, r, r2, flag, bytes, size, ord, room, third, split, seen>>

Exponent10Down ==
    /\ conv.pc = "exponent10_down"
    /\ conv' = exponent10_down(conv)
    /\ UNCHANGED <<a, b, op, k, prec, r, r2, flag, bytes, size, ord, room, third, split, seen>>

Exponent10Up ==
    /\ conv.pc = "exponent10_up"
    /\ conv' = exponent10_up(conv)
    /\ UNCHANGED <<a, b, op, k, prec, r, r2, flag, bytes, size, ord, room, third, split, seen>>

DropPrecision ==
    /\ conv.pc = "precision"
    /\ conv' = drop_precision(conv)
    /\ UNCHANGED <<a, b, op, k, prec, r, r2, flag, bytes, size, ord, room, third, split, seen>>

RemoveTens ==
    /\ conv.pc = "tens"
    /\ conv' = remove_tens(conv)
    /\ UNCHANGED <<a, b, op, k, prec, r, r2, flag, bytes, size, ord, room, third, split, seen>>

\* base2_to_decimal returns and try_from returns what it makes of it.
TryFromReturn ==
    /\ conv.pc \in {"some", "none"}
    /\ r' = try_from_result(conv)
    /\ conv' = [conv EXCEPT !.pc = "done"]
    /\ UNCHANGED <<a, b, op, k, prec, r2, flag, bytes, size, ord, room, third, split, seen>>

(***************************************************************************)
(* Mathematical values, to state what an operation should return.  A value  *)
(* is a record like a Decimal, with no bound on int_val and scale.         *)
(***************************************************************************)
\* The significand of x at scale e >= x.scale.
IntAtScale(x, e) == NatMulPow10(x.int_val, e - x.scale)

SameValue(x, y) ==
    LET e == Max(x.scale, y.scale)
    IN  /\ IntAtScale(x, e) = IntAtScale(y, e)
        /\ (x.negative = y.negative \/ x.int_val = NatZero)

\* The order of the values of x and y: -1, 0, 1.
ValueCmp(x, y) ==
    LET e  == Max(x.scale, y.scale)
        mx == IntAtScale(x, e)
        my == IntAtScale(y, e)
        nx == x.negative /\ mx # NatZero
        ny == y.negative /\ my # NatZero
    IN  IF nx # ny THEN (IF nx THEN -1 ELSE 1)
        ELSE IF nx THEN NatCmp(my, mx) ELSE NatCmp(mx, my)

\* Sum and difference of integers of any length, limb by limb: the carry into
\* limb i comes from the nearest lower limb that overflows, through limbs that
\* are full.
LongLimb(x, i) == IF i <= Len(x) THEN x[i] ELSE 0

LongAdd(x, y) ==
    LET n        == Max(Len(x), Len(y))
        Carry(i) == \E j \in 1..(i - 1) :
                        /\ LongLimb(x, j) + LongLimb(y, j) >= Base
                        /\ \A m \in (j + 1)..(i - 1) :
                               LongLimb(x, m) + LongLimb(y, m) = Base - 1
        sum      == [i \in 1..n |->
                        (LongLimb(x, i) + LongLimb(y, i)
                             + (IF Carry(i) THEN 1 ELSE 0)) % Base]
    IN  IF Carry(n + 1) THEN sum \o <<1>> ELSE sum

LongNorm(x) ==
    LET nz == {i \in 1..Len(x) : x[i] # 0}
    IN  IF nz = {} THEN << >>
        ELSE SubSeq(x, 1, CHOOSE i \in nz : \A j \in nz : j <= i)

\* x - y for x >= y.
LongSub(x, y) ==
    LET Borrow(i) == \E j \in 1..(i - 1) :
                         /\ LongLimb(x, j) < LongLimb(y, j)
                         /\ \A m \in (j + 1)..(i - 1) :
                                LongLimb(x, m) = LongLimb(y, m)
        diff      == [i \in 1..Len(x) |->
                         (x[i] - LongLimb(y, i)
                              - (IF Borrow(i) THEN 1 ELSE 0) + Base) % Base]
    IN  LongNorm(diff)

ExactSum(x, y) ==
    LET e  == Max(x.scale, y.scale)
        mx == IntAtScale(x, e)
        my == IntAtScale(y, e)
    IN  IF x.negative = y.negative
        THEN [int_val |-> LongAdd(mx, my), scale |-> e, negative |-> x.negative]
        ELSE IF NatLe(my, mx)
        THEN [int_val |-> LongSub(mx, my), scale |-> e, negative |-> x.negative]
        ELSE [int_val |-> LongSub(my, mx), scale |-> e, negative |-> y.negative]

ExactProduct(x, y) ==
    [int_val  |-> NatMul(x.int_val, y.int_val),
     scale    |-> x.scale + y.scale,
     negative |-> x.negative # y.negative]

\* A valid Decimal: what from_parts accepts, zero being canonical.
IsValid(d) ==
    /\ NatLe(d.int_val, MAX_I128_REPR)
    /\ d.scale >= MIN_SCALE
    /\ d.scale < MAX_SCALE + MAX_PRECISION
    /\ (d.int_val = NatZero => d = ZERO)

\* |x - y|.
AbsDiff(x, y) ==
    [ExactSum(x, [y EXCEPT !.negative = ~y.negative]) EXCEPT !.negative = FALSE]

\* n units of the place 10^(-e).
Units(n, e) == [int_val |-> NatOf(n), scale |-> e, negative |-> FALSE]

(***************************************************************************)
(* Arithmetic on pairs of operands.                                        *)
(***************************************************************************)
MaxCoef == 2

\* Significands c and c0 for small c, and the largest ones, 10^38 - c.
SmallInts == {NatMulPow10(NatOf(c), j) : c \in 1..MaxCoef, j \in {0, 1}}
LargeInts == {NatSub(NatPow10(MAX_PRECISION), NatOf(c)) : c \in 1..MaxCoef}

ArithScales ==
    {MIN_SCALE, -1, 0, 1, MAX_PRECISION + 2, MAX_SCALE, MAX_SCALE + 1}

ArithLeft == Decimals({NatZero} \cup SmallInts \cup LargeInts, ArithScales)
ArithRight == Decimals({NatZero, <<1>>, <<3>>, <<5>>, <<10>>}, {-1, 0, 1, MAX_SCALE})

InitArith == InitWith(ArithLeft, ArithRight, {MAX_BINARY_SIZE})

NextArith == Add \/ Sub \/ Mul \/ Div \/ Rem \/ SubBack \/ DivBack

SpecArith == InitArith /\ [][NextArith]_vars

\* C2: every Decimal returned by checked_add, checked_sub, checked_mul and
\* checked_div on valid operands has a significand of at most 10^38 - 1, also
\* when the half-up rounding of adjust_scale carries into an extra digit.
C2_SignificandBound ==
    (op \in {"checked_add", "checked_sub", "checked_mul", "checked_div"}
         /\ r.tag = "Some")
        => NatLe(r.val.int_val, MAX_I128_REPR)

\* |a| is at least 10^-130: adjust_scale does not flush a to zero.
AboveUnderflow(d) == is_zero(d) \/ d.scale - precision(d) < MAX_SCALE

\* |a| is below 10^126: adjust_scale does not report an overflow for a.
BelowOverflow(d) == is_zero(d) \/ d.scale - precision(d) >= MIN_SCALE

\* C8, as stated: whenever checked_add(a, b) returns Some(t) and
\* checked_sub(t, b) returns Some(u), u == a.
C8_AddSubInverse_AsStated ==
    (op = "add_sub" /\ r2.tag = "Some") => eq(r2.val, a)

\* C8, amended: when checked_add(a, b) returns Some(t) with t exactly a + b,
\* |a| is zero or at least 10^-130, and checked_sub(t, b) returns Some(u),
\* then u == a.
C8_AddSubInverse ==
    (op = "add_sub" /\ r2.tag = "Some"
         /\ SameValue(r.val, ExactSum(a, b)) /\ AboveUnderflow(a))
        => eq(r2.val, a)

\* An exact sum of non-zero operands of different scales, then subtracted.
C8_Witness ==
    /\ op = "add_sub"
    /\ r2.tag = "Some"
    /\ ~is_zero(a)
    /\ ~is_zero(b)
    /\ a.scale # b.scale
    /\ a.negative # b.negative
    /\ SameValue(r.val, ExactSum(a, b))
    /\ AboveUnderflow(a)
    /\ eq(r2.val, a)

C10_SignOfProductAndQuotient ==
    (op \in {"checked_mul", "checked_div"} /\ r.tag = "Some")
        => (r.val.negative <=> (~is_zero(r.val) /\ a.negative # b.negative))

\* A product of non-zero operands of different signs that adjust_scale
\* flushed to zero.
C10_Witness ==
    /\ op = "checked_mul"
    /\ r.tag = "Some"
    /\ ~is_zero(a)
    /\ ~is_zero(b)
    /\ a.negative # b.negative
    /\ is_zero(r.val)
    /\ ~r.val.negative

\* C12: checked_add(ZERO, x), checked_add(x, ZERO) and checked_sub(x, ZERO)
\* return x with its significand, scale and sign; checked_sub(ZERO, x) returns
\* x with its significand and scale and the sign flipped.
C12_ZeroOperands ==
    /\ (op = "checked_add" /\ is_zero(a)) => r = Some(b)
    /\ (op = "checked_add" /\ is_zero(b)) => r = Some(a)
    /\ (op = "checked_sub" /\ is_zero(b)) => r = Some(a)
    /\ (op = "checked_sub" /\ is_zero(a)) => r = Some(neg(b))

(***************************************************************************)
(* Rounding and normalization of one operand.                              *)
(***************************************************************************)
UnaryInts ==
    {NatZero, <<1>>, <<5>>, <<100>>, NatOf(123456), NatPow10(MAX_PRECISION - 1),
     MAX_I128_REPR}

UnaryScales ==
    {MIN_SCALE, MIN_SCALE + 1, -1, 0, 1, 6, MAX_PRECISION + 1,
     MAX_SCALE + MAX_PRECISION - 1}

UnaryOperands == Decimals(UnaryInts, UnaryScales)

\* The i16 scale arguments: both ends of i16, both ends of the range of a
\* scale, and scales around zero.
ScaleArgs ==
    {I16_MIN, MIN_SCALE, -1, 0, 1, 2, MAX_SCALE + MAX_PRECISION - 1, I16_MAX}

\* The arguments of round_with_precision: a u8 precision and an i16 scale.
PrecisionArgs == {1, 5, MAX_PRECISION}
RoundScaleArgs == {I16_MIN, -6, -1, 0, 1, 2, I16_MAX}

InitUnary == InitWith(UnaryOperands, {ZERO}, {MAX_BINARY_SIZE})

NextUnary ==
    \/ Ceil
    \/ Floor
    \/ Abs
    \/ Neg
    \/ Normalize
    \/ \E scale \in ScaleArgs : Trunc(scale)
    \/ \E scale \in ScaleArgs : Round(scale)
    \/ \E scale \in ScaleArgs : NormalizeToScale(scale)
    \/ \E precision_ \in PrecisionArgs, scale \in RoundScaleArgs :
           RoundWithPrecision(precision_, scale)

SpecUnary == InitUnary /\ [][NextUnary]_vars

UnaryOps ==
    {"ceil", "floor", "abs", "neg", "normalize", "trunc", "round",
     "normalize_to_scale", "round_with_precision"}

\* C1: every Decimal produced by negation, abs, trunc, round, ceil, floor,
\* normalize_to_scale or round_with_precision (when it reports no overflow)
\* on a valid Decimal that has significand 0 also has scale 0 and is not
\* negative.
C1_CanonicalZero ==
    (op \in UnaryOps /\ r.tag = "Some" /\ ~flag /\ is_zero(r.val))
        => r.val = ZERO

\* C3: every Decimal returned by ceil, floor, abs, negation, normalize,
\* trunc(k), round(k) and normalize_to_scale(k), for every i16 k, on a valid
\* Decimal has a scale in [-126, 169].
C3_ScaleBound ==
    (op \in UnaryOps \ {"round_with_precision"} /\ r.tag = "Some")
        => (r.val.scale >= MIN_SCALE /\ r.val.scale <= 169)

\* C15: for a non-zero x and a target scale t with
\* t - x.scale() <= -x.precision(), round_with_precision(p, t) sets x to
\* exactly zero and returns false.
C15_RoundWithPrecisionZero ==
    (op = "round_with_precision" /\ ~is_zero(a) /\ k - a.scale <= -precision(a))
        => (r.tag = "Some" /\ r.val = ZERO /\ ~flag)

\* |x| rounded half-up to a multiple of 10^(-t), in units of 10^(-t), for
\* -x.precision() <= t - x.scale() <= 38.
HalfUpUnits(x, t) ==
    IF t >= x.scale THEN NatMulPow10(x.int_val, t - x.scale)
    ELSE NatDivPow10(NatAdd(x.int_val, NatMulSmall(NatPow10(x.scale - t - 1), 5)),
                     x.scale - t)

\* Whether x rounded half-up to a multiple of 10^(-t) is at least 10^(p - t),
\* for p <= 38.
NeedsMoreDigits(x, p, t) ==
    IF t - x.scale >= p THEN TRUE
    ELSE IF t - x.scale < -precision(x) THEN FALSE
    ELSE NatLe(NatPow10(p), HalfUpUnits(x, t))

\* C16: for a non-zero x, p in 1..38 and a target scale t,
\* round_with_precision(p, t) returns true exactly when |x| rounded half-up to
\* a multiple of 10^(-t) is at least 10^(p - t); when it returns false, x is
\* that rounding and, if non-zero, has scale t and a significand below 10^p.
C16_RoundWithPrecisionOverflow ==
    (op = "round_with_precision" /\ ~is_zero(a) /\ prec \in 1..MAX_PRECISION)
        => /\ r.tag = "Some"
           /\ flag <=> NeedsMoreDigits(a, prec, k)
           /\ ~flag =>
                  IF k - a.scale < -precision(a) THEN is_zero(r.val)
                  ELSE /\ r.val.int_val = HalfUpUnits(a, k)
                       /\ ~is_zero(r.val) =>
                              /\ r.val.scale = k
                              /\ r.val.negative = a.negative
                              /\ NatLt(r.val.int_val, NatPow10(prec))

\* C17: round(k), for every i16 k clamped into [-126, 167], returns x itself
\* when x.scale() <= k and otherwise the Decimal of the value
\* sign(x) * floor(|x| * 10^k + 1/2) * 10^(-k).
C17_RoundHalfUp ==
    op = "round"
        => LET t == Max(MIN_SCALE, Min(k, MAX_SCALE + MAX_PRECISION - 1))
               n == IF a.scale - t > precision(a) THEN NatZero
                    ELSE HalfUpUnits(a, t)
           IN  /\ r.tag = "Some"
               /\ (is_zero(a) \/ a.scale <= t) => r.val = a
               /\ (~is_zero(a) /\ a.scale > t) =>
                      IF n = NatZero THEN r.val = ZERO
                      ELSE /\ SameValue(r.val, [int_val |-> n, scale |-> t,
                                                negative |-> a.negative])
                           /\ r.val.negative = a.negative

\* A negative x rounded away from zero, at a scale clamped from below i16's
\* smallest value.
C17_Witness ==
    /\ op = "round"
    /\ k = I16_MIN
    /\ a.negative
    /\ a.scale > MIN_SCALE
    /\ r.val.negative
    /\ r.val.scale = MIN_SCALE
    /\ r.val # trunc(a, k)

\* C18: ceil(x) is the smallest integer-valued Decimal >= x and floor(x) the
\* largest integer-valued Decimal <= x: floor(x) <= x <= ceil(x), each within
\* less than one of x, ceil(x) - floor(x) is 0 or 1, and both are x when x is
\* an integer (its scale is at most zero).
C18_CeilFloorBracket ==
    /\ op = "ceil" =>
           /\ r.tag = "Some"
           /\ r.val.scale <= 0
           /\ is_zero(r.val) => r.val = ZERO
           /\ ValueCmp(r.val, a) >= 0
           /\ ValueCmp(ExactSum(r.val, MINUS_ONE), a) < 0
           /\ a.scale <= 0 => r.val = a
           /\ \/ SameValue(r.val, floor(a))
              \/ SameValue(r.val, ExactSum(floor(a), ONE))
    /\ op = "floor" =>
           /\ r.tag = "Some"
           /\ r.val.scale <= 0
           /\ is_zero(r.val) => r.val = ZERO
           /\ ValueCmp(r.val, a) <= 0
           /\ ValueCmp(ExactSum(r.val, ONE), a) > 0
           /\ a.scale <= 0 => r.val = a

\* The floor of a negative x with a scale above 38: minus one.
C18_Witness ==
    /\ op = "floor"
    /\ a.negative
    /\ a.scale > MAX_PRECISION
    /\ r.val = MINUS_ONE
    /\ ceil(a) = ZERO

(***************************************************************************)
(* The binary format: encoding one operand and decoding what was written.  *)
(***************************************************************************)
\* Significands around the lengths 1, 2, 3, 8, 9 and 16 bytes.
CodecInts ==
    {NatZero, <<1>>, NatOf(U8_MAX), NatOf(U8_MAX + 1), NatSub(NatPow2(16), <<1>>),
     NatPow2(16), NatSub(NatPow2(64), <<1>>), NatPow2(64), MAX_I128_REPR}

CodecScales == {MIN_SCALE, -1, 0, 1, 11, MAX_SCALE + MAX_PRECISION - 1}

CodecOperands == Decimals(CodecInts, CodecScales)

InitCodec == InitWith(CodecOperands, {ZERO}, 0..MAX_BINARY_SIZE)

NextCodec == Encode \/ CompactEncode \/ Decode

SpecCodec == InitCodec /\ [][NextCodec]_vars

\* C4: decoding the bytes written by encode(d), and likewise by
\* compact_encode(d), returns d: the same significand, scale and sign.
C4_BinaryRoundTrip ==
    op = "decode" => r2 = Some(a)

\* The encoding with its header: flags, |scale|, and the bytes of the
\* significand, least significant first, up to its highest non-zero byte.
IsHeaderEncoding(out, d) ==
    /\ Len(out) >= 3
    /\ out[1] = (IF d.scale >= 0 THEN SCALE_MASK ELSE 0)
                    + (IF d.negative THEN SIGN_MASK ELSE 0)
    /\ out[2] = (IF d.scale >= 0 THEN d.scale ELSE -d.scale)
    /\ from_le_bytes(SubSeq(out, 3, Len(out))) = d.int_val
    /\ (Len(out) > 3 => out[Len(out)] # 0)

\* C5: encode and compact_encode return the number of bytes they wrote,
\* between 1 and 18; compact_encode writes 1 byte exactly when d is not
\* negative, has scale 0 and a significand in [0, 255], 2 bytes exactly when it
\* is not negative, has scale 0 and a significand in [256, 65535]; otherwise,
\* and encode always, the header and the bytes of the significand are written.
C5_EncodedSize ==
    (op \in {"encode", "compact_encode"} /\ r.tag = "Ok")
        => LET small == ~a.negative /\ a.scale = 0
               one   == small /\ NatLe(a.int_val, NatOf(U8_MAX))
               two   == small /\ ~one /\ NatLt(a.int_val, NatPow2(16))
           IN  /\ size = Len(bytes)
               /\ size \in 1..MAX_BINARY_SIZE
               /\ op = "compact_encode" => ((size = 1 <=> one) /\ (size = 2 <=> two))
               /\ (op = "encode" \/ ~(one \/ two)) => IsHeaderEncoding(bytes, a)

(***************************************************************************)
(* Comparison, equality and hashing of pairs of operands.                  *)
(***************************************************************************)
OrderInts ==
    {NatZero, <<1>>, <<5>>, <<10>>, NatPow10(MAX_PRECISION - 1), MAX_I128_REPR}

\* Scales that are equal, differ by at most 38, and differ by more.
OrderScales ==
    {MIN_SCALE, -1, 0, 1, MAX_PRECISION + 1, MAX_SCALE + MAX_PRECISION - 1}

OrderOperands == Decimals(OrderInts, OrderScales)

InitOrder == InitWith(OrderOperands, OrderOperands, {MAX_BINARY_SIZE})

NextOrder == Cmp \/ Eq \/ Hash

SpecOrder == InitOrder /\ [][NextOrder]_vars

\* C6: a == b holds if and only if normalize(a) and normalize(b) have the same
\* significand, scale and sign; so equal Decimals feed the same triple to the
\* hasher.
C6_EqualityIsNormalForm ==
    op = "eq_hash"
        => /\ flag <=> (r.val = r2.val)
           /\ flag => hash(a) = hash(b)
           /\ hash(a) = <<r.val.int_val, r.val.scale, r.val.negative>>

\* Two different representations of one value, one of a negative and one of
\* a zero scale, compared and hashed.
C6_Witness ==
    /\ op = "eq_hash"
    /\ flag
    /\ a.scale < 0
    /\ b.scale = 0
    /\ a.int_val # b.int_val
    /\ r.val = r2.val
    /\ hash(a) = hash(b)

\* C7: cmp(a, b) is the order of the values (-1)^s * m * 10^(-e) whatever the
\* scales and the signs; it is antisymmetric and transitive, and Equal exactly
\* when the values are equal.
C7_OrderingIsNumeric ==
    op = "cmp"
        => /\ ord = ValueCmp(a, b)
           /\ cmp(b, a) = -ord
           /\ (ord = 0 <=> SameValue(a, b))
           /\ \A c \in OrderOperands :
                  (ord <= 0 /\ cmp(b, c) <= 0) => cmp(a, c) <= 0

\* Two negative operands whose scales differ by more than 38, the one with
\* the larger scale on the left: Greater.
C7_Witness ==
    /\ op = "cmp"
    /\ a.negative
    /\ b.negative
    /\ a.scale - b.scale > MAX_PRECISION
    /\ ord = 1

\* The largest significand at scale 0, and one.
IsCarryOperands ==
    /\ a = from_raw_parts(MAX_I128_REPR, 0, FALSE)
    /\ b = ONE

\* C22, as stated: 99999999999999999999999999999999999999 + 1 returns the
\* Decimal with significand 1 and scale -38.
C22_CarryOut_AsStated ==
    (op = "checked_add" /\ IsCarryOperands)
        => r = Some(from_raw_parts(<<1>>, -MAX_PRECISION, FALSE))

\* C22, amended: the sum does not overflow and returns the Decimal with
\* significand 10^37 and scale -1, which is 10^38, the value of significand
\* 1 at scale -38.
C22_CarryOut ==
    (op = "checked_add" /\ IsCarryOperands)
        => /\ r = Some(from_raw_parts(NatPow10(MAX_PRECISION - 1), -1, FALSE))
           /\ SameValue(r.val, from_raw_parts(<<1>>, -MAX_PRECISION, FALSE))
           /\ SameValue(r.val, ExactSum(a, b))

C22_Witness ==
    /\ op = "checked_add"
    /\ IsCarryOperands
    /\ r.tag = "Some"
    /\ precision(r.val) = MAX_PRECISION
    /\ r.val.scale = -1

(***************************************************************************)
(* Sums of three operands.                                                 *)
(***************************************************************************)
AssocLeft ==
    Decimals({NatZero, <<1>>, <<4>>, <<6>>, MAX_I128_REPR},
             {-1, 0, 1, MAX_PRECISION + 1})

AssocRight ==
    Decimals({NatZero, <<4>>, <<6>>, MAX_I128_REPR}, {0, 1, MAX_PRECISION + 1})

InitAssoc ==
    /\ a \in AssocLeft
    /\ b \in AssocRight
    /\ third \in AssocRight
    /\ room = MAX_BINARY_SIZE
    /\ op = "init"
    /\ k = 0
    /\ prec = 0
    /\ r = None
    /\ r2 = None
    /\ flag = FALSE
    /\ bytes = << >>
    /\ size = 0
    /\ ord = 0
    /\ split = NoSplit
    /\ seen = {}
    /\ conv = NoConv

NextAssoc == AddTwice

SpecAssoc == InitAssoc /\ [][NextAssoc]_vars

\* The four sums computed by (a + b) + third and a + (b + third).
AssocSums ==
    {checked_add(a, b).val, r.val, checked_add(b, third).val, r2.val}

RemInts == {NatZero, <<1>>, <<7>>, NatOf(123456), MAX_I128_REPR}

\* Scales that are equal, differ by at most 38, by more than 38 and by more
\* than twice 38.
RemScales == {0, 1, MAX_PRECISION + 2, 2 * MAX_PRECISION + 4}

RemOperands == Decimals(RemInts, RemScales)

InitRem == InitWith(RemOperands, RemOperands, {MAX_BINARY_SIZE})

NextRem == Rem

SpecRem == InitRem /\ [][NextRem]_vars

PartsInts ==
    {NatZero, <<1>>, NatOf(123456), MAX_I128_REPR, NatPow10(MAX_PRECISION),
     NatSub(TwoPow128, <<1>>)}

\* Scales over all of i16, around the bounds that from_parts compares with.
PartsScales ==
    {I16_MIN, MIN_SCALE - 1, MIN_SCALE, -1, 0, 1, MAX_SCALE, MAX_SCALE + 1,
     MAX_SCALE + MAX_PRECISION - 1, MAX_SCALE + MAX_PRECISION, I16_MAX}

InitParts ==
    InitWith({from_raw_parts(m, e, s) :
                  m \in PartsInts, e \in PartsScales, s \in BOOLEAN},
             {ZERO}, {MAX_BINARY_SIZE})

NextParts == FromParts

SpecParts == InitParts /\ [][NextParts]_vars

\* C14: from_parts(m, e, s) returns Err(Overflow) whenever m has more than 38
\* digits or e is outside [-126, 130]; otherwise Ok with exactly those parts,
\* and canonical zero for m = 0.
C14_FromPartsBounds ==
    op = "from_parts"
        => IF NatDigits(a.int_val) > MAX_PRECISION
              \/ a.scale < MIN_SCALE \/ a.scale > MAX_SCALE
           THEN r.tag = "None"
           ELSE r = Some(IF a.int_val = NatZero THEN ZERO ELSE a)

(***************************************************************************)
(* exp on arguments around its two bounds, in several representations.     *)
(***************************************************************************)
ExpInts ==
    {NatZero, <<1>>, <<5>>, NatOf(29), NatOf(105), NatOf(290), NatOf(291),
     NatOf(299), NatOf(300), NatOf(2905), NatOf(29950), MAX_I128_REPR}

ExpScales == {-2, -1, 0, 1, 2, MAX_PRECISION, MAX_PRECISION + 2}

InitExp == InitWith(Decimals(ExpInts, ExpScales), {ZERO}, {MAX_BINARY_SIZE})

NextExp == Exp

SpecExp == InitExp /\ [][NextExp]_vars

\* The integer part of |x|.
IntegerPart(x) ==
    IF x.scale > 0 THEN NatDivPow10(x.int_val, x.scale)
    ELSE NatMulPow10(x.int_val, -x.scale)

\* The table entry for the integer part of the value of x.
EntryOfValue(x) ==
    LET n == NatToSmall(IntegerPart(x))
    IN  IF ~x.negative \/ n = 0
        THEN [table |-> "NATURAL_EXP", index |-> n, reciprocal |-> FALSE]
        ELSE IF n <= 290
        THEN [table |-> "NATURAL_EXP", index |-> n, reciprocal |-> TRUE]
        ELSE [table |-> "NATURAL_EXP_NEG", index |-> n - 291, reciprocal |-> FALSE]

\* C19: for every valid non-zero x with -300 < x < 291, exp splits x = a + b
\* with a the integer part of the value of x and |b| < 1, and takes e^a from
\* the table entry of |a|: NATURAL_EXP[a] for 0 <= a <= 290, the reciprocal of
\* NATURAL_EXP[|a|] for -290 <= a < 0, NATURAL_EXP_NEG[|a| - 291] for
\* -299 <= a <= -291, whatever the scale x is stored with.
C19_ExpRangeReduction ==
    (/\ op = "exp"
     /\ IsValid(a)
     /\ ~is_zero(a)
     /\ ValueCmp(a, LOWER_BOUND) > 0
     /\ ValueCmp(a, UPPER_BOUND) < 0)
        => /\ split.b.tag = "Some"
           /\ SameValue(split.a, [int_val |-> IntegerPart(a), scale |-> 0,
                                  negative |-> a.negative])
           /\ SameValue(ExactSum(split.a, split.b.val), a)
           /\ ValueCmp(abs(split.b.val), ONE) < 0
           /\ split.exp_a = EntryOfValue(a)

(***************************************************************************)
(* checked_pow with exponents on both sides of the range of the integer    *)
(* powers.                                                                 *)
(***************************************************************************)
PowBases ==
    Decimals({NatZero, <<1>>, <<2>>, <<3>>, NatOf(10001), NatOf(9999)}, {-1, 0, 4})

PowExponents ==
    Decimals({NatZero, <<1>>, NatOf(15), NatOf(32768), NatOf(32769), NatOf(32770),
              NatOf(65535), NatOf(65536), NatOf(65537), NatOf(655370)},
             {-1, 0, 1})

InitPow == InitWith(PowBases, PowExponents, {MAX_BINARY_SIZE})

NextPow == CheckedPow

SpecPow == InitPow /\ [][NextPow]_vars

\* y is an integer outside the range of pow_i64 and pow_u64.
BeyondIntegerPowers(y) ==
    /\ normalize(y).scale <= 0
    /\ \/ ValueCmp(y, from_raw_parts(NatOf(-I16_MIN), 0, TRUE)) < 0
       \/ ValueCmp(y, from_raw_parts(NatOf(U16_MAX), 0, FALSE)) > 0

IsOddInteger(y) ==
    LET n == normalize(y)
    IN  n.scale = 0 /\ NatToSmall(n.int_val) % 2 = 1

\* C20: when checked_pow(x, y) goes through pow_decimal for an integer y
\* outside the range of the integer powers, a non-zero result is negative
\* exactly when x < 0 and y is odd; for x > 0 it is never negative.
C20_PowSign ==
    (/\ op = "checked_pow"
     /\ ~is_zero(a)
     /\ ~eq(a, ONE)
     /\ BeyondIntegerPowers(b)
     /\ r.tag = "Some"
     /\ ~is_zero(r.val))
        => (r.val.negative <=> (a.negative /\ IsOddInteger(b)))

(***************************************************************************)
(* Square roots: the loop of sqrt, one turn at a time.                     *)
(***************************************************************************)
SqrtInts ==
    {NatZero, <<1>>, <<2>>, <<3>>, <<4>>, NatOf(49), NatOf(144), NatOf(125348),
     NatOf(152399025), NatSub(NatPow10(MAX_PRECISION), NatOf(MaxCoef)),
     MAX_I128_REPR}

SqrtScales ==
    {MIN_SCALE, -100, -3, -2, -1, 0, 1, 2, 3, MAX_PRECISION - 1, MAX_PRECISION,
     MAX_SCALE, MAX_SCALE + MAX_PRECISION - 1}

InitSqrt == InitWith(Decimals(SqrtInts, SqrtScales), {ZERO}, {MAX_BINARY_SIZE})

NextSqrt == SqrtBegin \/ SqrtLoop

SpecSqrt == InitSqrt /\ [][NextSqrt]_vars

\* C21: sqrt terminates.  A turn of the loop is a function of last alone, so
\* the loop runs forever exactly when last takes a value it had before; it
\* never does: every turn gives None, a result equal to last (the loop is
\* left), or a value last never had.
C21_SqrtTerminates ==
    /\ op = "sqrt_loop" => (~flag /\ r.tag = "Some" /\ r.val \in seen)
    /\ (op = "sqrt" /\ ~a.negative /\ ~is_zero(a) /\ r.tag = "Some")
           => (r = r2 /\ \E last \in seen : eq(r.val, last))

\* The square root of 2, after several turns of the loop.
C21_Witness ==
    /\ op = "sqrt"
    /\ a = from_raw_parts(<<2>>, 0, FALSE)
    /\ r.tag = "Some"
    /\ precision(r.val) = MAX_PRECISION
    /\ Cardinality(seen) > 5
    /\ ValueCmp(ExactProduct(r.val, r.val), a) # 0


(***************************************************************************)
(* Text: a Decimal is written and the text is parsed.                      *)
(***************************************************************************)
TextInts ==
    {NatOf(1), NatOf(5), NatOf(10), NatOf(120), <<2345, 1>>, <<5000, 1234>>,
     NatPow10(37), NatSub(NatPow10(38), NatOf(MaxCoef)), MAX_I128_REPR}

TextScales ==
    {MIN_SCALE, -125, -89, -88, -40, -3, -1, 0, 1, 2, 3, 4, 37, 38, 39, 92,
     MAX_SCALE - 1, MAX_SCALE, MAX_SCALE + 1, MAX_SCALE + MAX_PRECISION - 1}

InitText == InitWith(Decimals(TextInts \cup {NatZero}, TextScales), {ZERO}, {0})

NextText == Display \/ SimplyFormat \/ Parse

SpecText == InitText /\ [][NextText]_vars

\* The exponent X of d written as 0.d1d2...eX.
NormalizedExp(d) == precision(d) - d.scale

\* C23: for every valid Decimal d (a significand of at most 38 digits and a
\* scale that from_parts accepts), parsing the plain positional text that
\* Display writes (no precision) succeeds and returns a Decimal equal to d.
C23_TextRoundTrip ==
    op = "parse_display" => (r.tag = "Ok" /\ eq(r.val, a))

\* The round trip for the Decimals whose normalized exponent is in the range
\* that parse_str accepts, and the error for the others.
TextRoundTripInParserRange ==
    (op = "parse_display" /\ ~is_zero(a))
        => IF NormalizedExp(a) > -MAX_SCALE /\ NormalizedExp(a) <= -MIN_SCALE
           THEN r.tag = "Ok" /\ eq(r.val, a)
           ELSE r.tag = "Err"

(***************************************************************************)
(* Parsing: a text with no digit before the point, and the same text with  *)
(* the digit 0 before the point.                                           *)
(***************************************************************************)
\* The bytes of the digits ds.
AsciiDigits(ds) == [i \in 1..Len(ds) |-> byte("0") + ds[i]]

FractionDigits ==
    {AsciiDigits(<<5>>), AsciiDigits(<<0, 5>>), AsciiDigits(<<5, 0>>),
     AsciiDigits(<<0, 0, 0>>), AsciiDigits(<<1, 2, 3, 4, 5, 6, 7, 8, 9>>),
     ZERO_BUF(37) \o AsciiDigits(<<1, 5>>),
     ZERO_BUF(38) \o AsciiDigits(<<1>>),
     ZERO_BUF(38) \o AsciiDigits(<<5>>),
     [i \in 1..40 |-> byte("9")],
     ZERO_BUF(129) \o AsciiDigits(<<1>>),
     ZERO_BUF(130) \o AsciiDigits(<<1>>)}

TextSigns == {<< >>, <<byte("-")>>, <<byte("+")>>}

TextExponents ==
    {<< >>, <<byte("e")>>,
     <<byte("e")>> \o AsciiDigits(<<0>>),
     <<byte("E"), byte("-")>> \o AsciiDigits(<<1, 2, 9>>),
     <<byte("e"), byte("-")>> \o AsciiDigits(<<1, 3, 0>>),
     <<byte("e"), byte("+")>> \o AsciiDigits(<<1, 2, 6>>),
     <<byte("e")>> \o AsciiDigits(<<1, 6, 4>>),
     <<byte("e")>> \o AsciiDigits(<<0, 1, 0, 0, 0>>)}

\* The texts sign ".F" exponent.
FractionTexts ==
    {sign \o <<byte(".")>> \o F \o e :
        sign \in TextSigns, F \in FractionDigits, e \in TextExponents}

InitParse ==
    /\ a = ZERO
    /\ b = ZERO
    /\ room = 0
    /\ op = "init"
    /\ k = 0
    /\ prec = 0
    /\ r = None
    /\ r2 = None
    /\ flag = FALSE
    /\ bytes \in FractionTexts
    /\ size = 0
    /\ ord = 0
    /\ third = ZERO
    /\ split = NoSplit
    /\ seen = {}
    /\ conv = NoConv

NextParse == FromStrOmitted \/ FromStrLeading

SpecParse == InitParse /\ [][NextParse]_vars

\* The two results of parsing are the same error, or Decimals that are equal.
SameOutcome(x, y) ==
    /\ x.tag = y.tag
    /\ x.tag = "Err" => x.err = y.err
    /\ x.tag = "Ok" => eq(x.val, y.val)

\* C29: for every digit string F, with any sign and exponent, parsing ".F"
\* gives the same outcome as parsing "0.F": the same error, or Decimals that
\* are equal.
C29_OmittedLeadingZero ==
    op = "from_str_leading" => SameOutcome(r, r2)

(***************************************************************************)
(* The division of a U256 by a U256 that is not zero.                      *)
(***************************************************************************)
WideDividends ==
    {NatZero, NatOf(7), NatPow10(38), TwoPow128, NatMulSmall(NatPow2(127), 3),
     NatPow2(129), NatAdd(NatPow2(129), NatSub(B, <<1>>)), NatPow2(192),
     NatAdd(NatPow2(192), NatAdd(TwoPow128, B)), NatPow10(76),
     NatAdd(NatPow10(57), NatOf(7)),
     <<2634, 1640, 6186, 1474, 7142, 9410, 5223, 4643, 44, 3360, 1>>,
     NatSub(NatSub(TwoPow256, NatPow2(127)), <<1>>), NatSub(TwoPow256, <<1>>)}

WideDivisors ==
    {NatOf(1), NatOf(2), NatOf(3), NatPow10(19), NatAdd(B, <<1>>),
     <<3854, 4245, 7086, 3154, 8156, 1>>,
     NatPow10(38), NatSub(TwoPow128, <<1>>), TwoPow128,
     NatAdd(TwoPow128, <<1>>), NatAdd(TwoPow128, NatOf(2)),
     NatAdd(TwoPow128, NatAdd(B, <<1>>)),
     NatSub(NatSub(NatPow2(131), TwoPow128), <<1>>), NatPow2(255)}

InitDiv ==
    /\ a \in WideDividends
    /\ b \in WideDivisors
    /\ room = 0
    /\ op = "init"
    /\ k = 0
    /\ prec = 0
    /\ r = <<NatZero, NatZero>>
    /\ r2 = None
    /\ flag = FALSE
    /\ bytes = << >>
    /\ size = 0
    /\ ord = 0
    /\ third = ZERO
    /\ split = NoSplit
    /\ seen = {}
    /\ conv = NoConv

NextDiv == DivRem

SpecDiv == InitDiv /\ [][NextDiv]_vars

\* C24: for every 256-bit N and every non-zero 256-bit D, U256::div_rem(N, D)
\* returns (q, r) with q * D + r = N and 0 <= r < D, in each of its branches.
C24_WideDivisionExact ==
    op = "div_rem" => (NatAdd(NatMul(r[1], b), r[2]) = a /\ NatLt(r[2], b))

\* A division that knuth_div_mod does, whose guess of the quotient is one too
\* large and is corrected.
C24_Witness ==
    /\ op = "div_rem"
    /\ a = NatPow2(192)
    /\ b = NatAdd(TwoPow128, <<1>>)
    /\ high(b) # NatZero
    /\ r[1] = NatSub(B, <<1>>)
    /\ r[2] # NatZero

(***************************************************************************)
(* Sums and differences of operands whose scales are far apart.            *)
(***************************************************************************)
FarInts == {NatOf(1), NatMulSmall(NatPow10(37), 5), MAX_I128_REPR}

FarLeft == Decimals(FarInts, {-50, 0})

FarRight ==
    Decimals({NatOf(1), MAX_I128_REPR},
             {POWERS_10_LEN - 51, POWERS_10_LEN - 50, POWERS_10_LEN - 49,
              POWERS_10_LEN - 1, POWERS_10_LEN, POWERS_10_LEN + 1, MAX_SCALE})

InitFar == InitWith(FarLeft \cup FarRight, FarLeft \cup FarRight, {0})

NextFar == Add \/ Sub

SpecFar == InitFar /\ [][NextFar]_vars

\* Two operands that are not zero and whose scales differ by at least 77 have
\* been added or subtracted.
IsFarApart ==
    /\ op \in {"checked_add", "checked_sub"}
    /\ ~is_zero(a) /\ ~is_zero(b)
    /\ (a.scale - b.scale >= POWERS_10_LEN \/ b.scale - a.scale >= POWERS_10_LEN)

\* C25 as stated: when two non-zero Decimals whose scales differ by k >= 77
\* are added or subtracted, the operand with the smaller scale is negligible
\* and the result is (in magnitude) the operand with the larger scale.
C25_NegligibleOperand_AsStated ==
    IsFarApart =>
        /\ r.tag = "Some"
        /\ abs(r.val) = abs(IF a.scale > b.scale THEN a ELSE b)

\* C25 amended: the operand with the larger scale is negligible and the result
\* is the operand with the smaller scale, with the sign it has in the sum or
\* difference.
C25_NegligibleOperand ==
    IsFarApart =>
        /\ r.tag = "Some"
        /\ r.val = (IF a.scale < b.scale THEN a
                    ELSE IF op = "checked_add" THEN b ELSE neg(b))

\* 1 - (10^38 - 1) * 10^-77: the difference is returned as 1.
C25_Witness ==
    /\ op = "checked_sub"
    /\ a = from_raw_parts(<<1>>, 0, FALSE)
    /\ b = from_raw_parts(MAX_I128_REPR, POWERS_10_LEN, FALSE)
    /\ r = Some(a)

(***************************************************************************)
(* Quotients.                                                              *)
(***************************************************************************)
QuotInts ==
    {NatOf(1), NatOf(2), NatOf(5), NatOf(7), NatOf(10), NatOf(13), NatOf(300),
     NatOf(9999), NatSub(NatPow10(19), <<1>>), NatPow10(37),
     NatSub(NatPow10(38), NatOf(MaxCoef)), MAX_I128_REPR}

QuotOperands == Decimals(QuotInts, {-2, 0, 3})

InitQuot == InitWith(QuotOperands, QuotOperands, {0})

NextQuot == Div

SpecQuot == InitQuot /\ [][NextQuot]_vars

\* |x / y| rounded half-up to a multiple of 10^(-e), in units of 10^(-e), for
\* e >= x.scale - y.scale.
QuotientHalfUp(x, y, e) ==
    NatDivMod(NatAdd(NatMulSmall(NatMulPow10(x.int_val, e + y.scale - x.scale), 2),
                     y.int_val),
              NatMulSmall(y.int_val, 2))[1]

\* checked_div has returned a quotient that is not zero.
IsQuotient ==
    /\ op = "checked_div"
    /\ ~is_zero(b)
    /\ r.tag = "Some"
    /\ ~is_zero(r.val)

\* C26: a non-zero quotient q that checked_div(a, b) returns is the
\* exact quotient a / b rounded half-up (ties away from zero) to the digits
\* of q: the two roundings (div128_round, then adjust_scale) give what one
\* rounding of the exact quotient gives.
C26_DivisionRounded ==
    IsQuotient =>
        /\ r.val.scale >= a.scale - b.scale
        /\ r.val.int_val = QuotientHalfUp(a, b, r.val.scale)

\* What the two roundings do give: the exact quotient rounded half-up to the
\* digits of q, or one unit in the last place above it in magnitude.
DivisionWithinOneUnit ==
    IsQuotient =>
        /\ r.val.scale >= a.scale - b.scale
        /\ precision(r.val) = MAX_PRECISION
        /\ r.val.int_val \in {QuotientHalfUp(a, b, r.val.scale),
                               NatAdd(QuotientHalfUp(a, b, r.val.scale), <<1>>)}

\* 5 / 13 = 0.384615...38|4615...: the 39-digit quotient ends in 384.6 and is
\* rounded to ...385, which is then rounded to ...39.
DoubleRounding ==
    /\ IsQuotient
    /\ a = from_raw_parts(NatOf(5), 0, FALSE)
    /\ b = from_raw_parts(NatOf(13), 0, FALSE)
    /\ r.val.scale = MAX_PRECISION
    /\ r.val.int_val = NatAdd(QuotientHalfUp(a, b, MAX_PRECISION), <<1>>)

(***************************************************************************)
(* round_with_precision that reports an overflow.                          *)
(***************************************************************************)
\* C27: whenever round_with_precision(p, t) returns true, the Decimal it was
\* called on has the significand, the scale and the sign it had before the
\* call.
C27_NoPartialUpdate ==
    (op = "round_with_precision" /\ r.tag = "Some" /\ flag) => r.val = a

\* The overflow found after digits were dropped: the significand is already
\* the rounded one and the scale is still the old one.
PartialUpdate ==
    /\ op = "round_with_precision"
    /\ r.tag = "Some"
    /\ flag
    /\ k < a.scale
    /\ r.val.scale = a.scale
    /\ r.val.int_val # a.int_val

\* An overflow found before any digit is dropped leaves the Decimal as it was.
NoUpdateWithoutRounding ==
    (op = "round_with_precision" /\ r.tag = "Some" /\ flag /\ k >= a.scale)
        => r.val = a

(***************************************************************************)
(* Representations of one value.                                           *)
(***************************************************************************)
\* d with n more trailing zeros in the significand and the matching scale.
WithTrailingZeros(d, n) ==
    from_raw_parts(NatMulPow10(d.int_val, n), d.scale + n, d.negative)

ReprZeros == {0, 1, MAX_PRECISION - 1}

ReprInts == {NatOf(1), NatOf(5), NatOf(13)}

ReprScales == {MIN_SCALE, 0, MAX_SCALE - MAX_PRECISION + 1}

ReprOperands ==
    {WithTrailingZeros(from_raw_parts(m, e, FALSE), n) :
        m \in ReprInts, e \in ReprScales, n \in ReprZeros}

InitRepr ==
    /\ a \in ReprOperands
    /\ b \in ReprOperands
    /\ third \in {x \in ReprOperands : x # a /\ SameValue(x, a)}
    /\ room = 0
    /\ op = "init"
    /\ k = 0
    /\ prec = 0
    /\ r = None
    /\ r2 = None
    /\ flag \in BOOLEAN
    /\ bytes = << >>
    /\ size = 0
    /\ ord = 0
    /\ split = NoSplit
    /\ seen = {}
    /\ conv = NoConv

NextRepr == AddBoth \/ SubBoth \/ MulBoth \/ DivBoth \/ RemBoth

SpecRepr == InitRepr /\ [][NextRepr]_vars

BothOps ==
    {"checked_add_other", "checked_sub_other", "checked_mul_other",
     "checked_div_other", "checked_rem_other"}

\* Both None, or both Some of Decimals that are equal.
SameResult(x, y) ==
    /\ x.tag = y.tag
    /\ x.tag = "Some" => eq(x.val, y.val)

\* The operands are valid Decimals and the two pairs have the same values.
IsSameOperands ==
    /\ IsValid(a) /\ IsValid(b) /\ IsValid(third)
    /\ eq(a, third)

\* C28: for all valid a, a2, b, b2 with a == a2 and b == b2, each of
\* checked_add, checked_sub, checked_mul, checked_div and checked_rem returns
\* None for both pairs or Some(r) and Some(r2) with r == r2.
C28_ValueNotRepresentation ==
    (op \in BothOps /\ IsSameOperands) => SameResult(r, r2)

\* 5 / 13 against 5 * 10^37 * 10^-37 / 13: the quotients differ in the last
\* digit.
DivisionOfRepresentations ==
    /\ op = "checked_div_other"
    /\ ~flag
    /\ a = from_raw_parts(NatOf(5), 0, FALSE)
    /\ third = WithTrailingZeros(a, MAX_PRECISION - 1)
    /\ b = from_raw_parts(NatOf(13), 0, FALSE)
    /\ r.tag = "Some" /\ r2.tag = "Some"
    /\ r.val.scale = r2.val.scale
    /\ r.val.int_val = NatAdd(r2.val.int_val, <<1>>)

\* 5 * 10^126 - 13 * 10^126 against 5 * 10^126 - 13 * 10^37 * 10^89: the first
\* is returned, the second is refused.
SubtractionOfRepresentations ==
    /\ op = "checked_sub_other"
    /\ flag
    /\ b = from_raw_parts(NatOf(5), MIN_SCALE, FALSE)
    /\ a = from_raw_parts(NatOf(13), MIN_SCALE, FALSE)
    /\ third = WithTrailingZeros(a, MAX_PRECISION - 1)
    /\ r.tag = "Some"
    /\ r2.tag = "None"

\* checked_mul and checked_rem on the operands of the model.
ProductNotRepresentation ==
    (op \in {"checked_mul_other", "checked_rem_other"} /\ IsSameOperands) => SameResult(r, r2)

(***************************************************************************)
(* Conversion from floats.                                                 *)
(***************************************************************************)
\* The biased exponents of f64: subnormal, 0.1, 1, 2^77, 2^127, 2^128, 2^129,
\* the largest, and infinity or NaN.
F64Exponents == {0, 1019, 1023, 1100, 1150, 1151, 1152, 2046, 2047}

\* Mantissas of f64: 0, 1, 2^51, that of 0.1, and 2^52 - 1.
F64Mantissas ==
    {NatZero, <<1>>, NatPow2(51), <<2298, 7642, 1597, 2702>>,
     NatSub(NatPow2(52), <<1>>)}

\* The biased exponents of f32: subnormal, 0.1, 1, 2^100, the largest, and
\* infinity or NaN.
F32Exponents == {0, 123, 127, 227, 254, 255}

\* Mantissas of f32: 0, 1, that of 0.1, and 2^23 - 1.
F32Mantissas == {NatZero, <<1>>, <<3165, 503>>, NatSub(NatPow2(23), <<1>>)}

Floats(exponents, mantissas) ==
    [negative : BOOLEAN, biased_exponent : exponents, mantissa : mantissas]

InitFloat == InitWith({ZERO}, {ZERO}, {0})

NextFloat ==
    \/ \E float \in Floats(F64Exponents, F64Mantissas) : TryFromF64(float)
    \/ \E float \in Floats(F32Exponents, F32Mantissas) : TryFromF32(float)
    \/ Exponent5Down
    \/ Exponent5Up
    \/ Exponent10Down
    \/ Exponent10Up
    \/ DropPrecision
    \/ RemoveTens
    \/ TryFromReturn

SpecFloat == InitFloat /\ [][NextFloat]_vars

\* |x - y| of two unsigned integers.
NatAbsDiff(x, y) == IF NatLe(x, y) THEN NatSub(y, x) ELSE NatSub(x, y)

\* The decimal digits a float is good for, less one.
GuaranteedDigits(is_f64) == IF is_f64 THEN 16 ELSE 8

\* d is bits * 2^exponent2, exponent2 > 0, but for a relative error of
\* 10^(-digits).
IsBinaryValue(d, bits, exponent2, digits) ==
    /\ d.scale >= 0
    /\ NatLe(NatMulPow10(NatAbsDiff(d.int_val,
                                    NatMulPow10(NatMul(bits, NatPow2(exponent2)),
                                                d.scale)),
                         digits),
             NatMulPow10(NatMul(bits, NatPow2(exponent2)), d.scale))

\* try_from has returned what base2_to_decimal gave it for bits > 0 and
\* exponent2 > 0.
IsLargeConversion ==
    /\ conv.pc = "done"
    /\ conv.bits_arg # NatZero
    /\ conv.exponent2 > 0

\* C30: for every mantissa bits > 0 and binary exponent exponent2 > 0,
\* base2_to_decimal ends and returns None (try_from then returns
\* Err(Overflow)) or a Decimal whose value is bits * 2^exponent2 up to the
\* decimal digits the float is good for.
C30_BinaryToDecimalSound ==
    IsLargeConversion =>
        \/ r = ConvertErr("Overflow")
        \/ /\ r.tag = "Ok"
           /\ IsBinaryValue(r.val, conv.bits_arg, conv.exponent2,
                            GuaranteedDigits(conv.is_f64))

\* The second part of C30: a turn of `while exponent10 > 0` that lowers
\* exponent10 multiplies the mantissa by 10.
LoopMultiplies ==
    [][(conv.pc = "exponent10_down" /\ conv'.exponent10 < conv.exponent10)
          => conv'.bits = NatMulSmall(conv.bits, 10)]_vars

\* No turn of `while exponent10 > 0` leaves both exponent10 and the loop as
\* they are: the loop is never entered with a mantissa below 10^37.
LoopNeverSpins ==
    conv.pc = "exponent10_down" => exponent10_down(conv) # conv

\* The loop a conversion is in, in the order of the code.
Place(c) ==
    CASE c.pc = "idle" -> 0
      [] c.pc = "exponent5_down" -> 1
      [] c.pc = "exponent5_up" -> 2
      [] c.pc = "exponent10_down" -> 3
      [] c.pc = "exponent10_up" -> 4
      [] c.pc = "precision" -> 5
      [] c.pc = "tens" -> 6
      [] c.pc \in {"some", "none"} -> 7
      [] c.pc = "done" -> 8

\* What a turn of the loop lowers.
Turns(c) ==
    CASE c.pc = "exponent5_down" -> c.exponent5
      [] c.pc = "exponent5_up" -> -c.exponent5
      [] c.pc = "exponent10_down" -> c.exponent10
      [] c.pc \in {"exponent10_up", "precision", "tens"} -> -c.exponent10
      [] OTHER -> 0

\* Every step leaves a loop for a later place or lowers what is left of the
\* loop, which is not negative: base2_to_decimal ends.
ConversionEnds ==
    [][\/ Place(conv') > Place(conv)
       \/ /\ Place(conv') = Place(conv)
          /\ Turns(conv') < Turns(conv)
          /\ Turns(conv') >= 0]_vars

\* f64 2^128: the mantissa 2^52 is shifted to 2^127 and divided by 5, the
\* loop lowers exponent10 from 1 to 0 and the mantissa stays 2^127 / 5: the
\* Decimal returned is a tenth of the float.
TenthOfFloat ==
    /\ op = "try_from_f64"
    /\ conv.pc = "done"
    /\ conv.bits_arg = NatPow2(52)
    /\ conv.exponent2 = 76
    /\ r.tag = "Ok"
    /\ r.val.scale = 0
    /\ r.val.int_val = NatDivModSmall(NatPow2(127), 5)[1]

\* f64 2^127: the Decimal returned has a significand of 39 digits.
SignificandOfFloatTooLong ==
    /\ op = "try_from_f64"
    /\ conv.pc = "done"
    /\ conv.exponent2 = 75
    /\ r.tag = "Ok"
    /\ NatLt(MAX_I128_REPR, r.val.int_val)

=============================================================================
